---- MODULE Spec2Model ----
(***************************************************************************)
(* pymdownx-mahjong: the MPSZ notation parser (parser.py), the tile        *)
(* catalog (tiles.py) and the block helpers (utils.py).                    *)
(*                                                                         *)
(* A Python str is a sequence of one-character strings.  A value that may  *)
(* be None (a regex group, Hand.draw_tile, a catalog lookup) is a sequence *)
(* of length 0 or 1.  Offsets into a str are 0-based, as in Python.        *)
(***************************************************************************)
EXTENDS Integers, Sequences, FiniteSets, TLC

VARIABLES
    notation,   \* the str handed to MahjongParser.parse / parse_tiles
    content,    \* the str handed to parse_hand_block
    errors,     \* MahjongParser.errors of the parser instance
    result,     \* what the last call returned or raised
    given_tiles, \* a list of Tile built by the caller
    given_hand,  \* a Hand built by the caller
    threads,     \* the calls in progress on one shared parser, per thread
    renderer,    \* the MahjongRenderer: its theme, closed_kan_style, css_class
    svg_id_counter,  \* the next value of the module's _svg_id_counter
    given_title, \* the title handed to render: <<>> for None, else <<str>>
    svg_cache,   \* the entries of the lru_cache of _load_and_process_svg,
                 \* the least recently used first
    blocks,      \* the list of blocks the block parser still has to process
    parent       \* the elements appended to the parent element so far

vars == <<notation, content, errors, result, given_tiles, given_hand, threads,
          renderer, svg_id_counter, given_title, svg_cache, blocks, parent>>

\* What the specifications that render nothing leave alone
render_vars == <<renderer, svg_id_counter, given_title, svg_cache, blocks,
                 parent>>

(***************************************************************************)
(* Characters                                                              *)
(***************************************************************************)
DigitSeq == <<"0", "1", "2", "3", "4", "5", "6", "7", "8", "9">>

DigitChars == {DigitSeq[i] : i \in 1..10}

SuitChars == {"m", "p", "s", "z"}

SourceChars == {"<", "^", ">"}

OpenChars == {"[", "("}

CloseChars == {"]", ")"}

WhiteSpace == {" ", "\n", "\t"}

\* int(num_char) for one decimal digit
int(c) == (CHOOSE i \in 1..10 : DigitSeq[i] = c) - 1

\* f"{number}" for a number 0..9
str(n) == DigitSeq[n + 1]

\* s[a:b]
Slice(s, a, b) == SubSeq(s, a + 1, b)

RECURSIVE lstrip(_)
lstrip(s) ==
    IF s # <<>> /\ Head(s) \in WhiteSpace THEN lstrip(Tail(s)) ELSE s

RECURSIVE rstrip(_)
rstrip(s) ==
    IF s # <<>> /\ s[Len(s)] \in WhiteSpace
    THEN rstrip(SubSeq(s, 1, Len(s) - 1))
    ELSE s

\* str.strip()
strip(s) == rstrip(lstrip(s))

\* str.replace(c, "") for each character of cs
RemoveChars(s, cs) == SelectSeq(s, LAMBDA c : c \notin cs)

(***************************************************************************)
(* tiles.py: the tile catalog                                              *)
(***************************************************************************)
TileInfo(asset_name, display_name) ==
    [asset_name |-> asset_name, display_name |-> display_name]

_SUIT_NAMES == [s \in {"m", "p", "s"} |->
    CASE s = "m" -> "Man" [] s = "p" -> "Pin" [] s = "s" -> "Sou"]

_HONOR_NAMES == [n \in 1..7 |->
    <<"East", "South", "West", "North",
      "White Dragon", "Green Dragon", "Red Dragon">>[n]]

_build_tile_database ==
    [k \in ({<<s, n>> : s \in DOMAIN _SUIT_NAMES, n \in 0..9}
            \cup {<<"z", n>> : n \in DOMAIN _HONOR_NAMES}) |->
        IF k[1] = "z"
        THEN TileInfo(<<str(k[2]), "z">>, <<_HONOR_NAMES[k[2]]>>)
        ELSE IF k[2] = 0
             THEN TileInfo(<<"0", k[1]>>, <<"Red 5 ", _SUIT_NAMES[k[1]]>>)
             ELSE TileInfo(<<str(k[2]), k[1]>>,
                           <<str(k[2]), " ", _SUIT_NAMES[k[1]]>>)]

TILE_DATABASE == _build_tile_database

\* TILE_DATABASE.get((suit, number)): <<info>>, or <<>> for None
get_tile_info(suit, number) ==
    IF <<suit, number>> \in DOMAIN TILE_DATABASE
    THEN <<TILE_DATABASE[<<suit, number>>]>>
    ELSE <<>>

(***************************************************************************)
(* parser.py: data classes                                                 *)
(***************************************************************************)
MeldType == {"chi", "pon", "kan_open", "kan_closed", "kan_added"}

MeldSource == {"<", "^", ">", ""}

\* MeldSource.LEFT, ACROSS, RIGHT, SELF
LEFT == "<"

ACROSS == "^"

RIGHT == ">"

SELF == ""

\* _SOURCE_MAP.get(source_char, MeldSource.SELF); source_char is a str
SourceOf(source_char) ==
    IF source_char = <<"<">> THEN LEFT
    ELSE IF source_char = <<"^">> THEN ACROSS
    ELSE IF source_char = <<">">> THEN RIGHT
    ELSE SELF

Tile(suit, number) ==
    [suit |-> suit, number |-> number, is_rotated |-> FALSE, is_added |-> FALSE]

\* Tile.notation written suit first
TileNotation_SuitFirst(t) == <<t.suit, str(t.number)>>

\* Tile.notation
TileNotation(t) == <<str(t.number), t.suit>>

Meld(tiles, meld_type, source) ==
    [tiles |-> tiles, meld_type |-> meld_type, source |-> source]

\* Meld.is_open
is_open(meld) == meld.meld_type # "kan_closed"

\* Hand(): every field at its default
Hand ==
    [closed_tiles |-> <<>>, melds |-> <<>>, dora_indicators |-> <<>>,
     uradora_indicators |-> <<>>, draw_tile |-> <<>>]

RECURSIVE MeldTiles(_)
MeldTiles(melds) ==
    IF melds = <<>> THEN <<>>
    ELSE Head(melds).tiles \o MeldTiles(Tail(melds))

\* Hand.all_tiles with the indicator tiles counted in
all_tiles_WithIndicators(hand) ==
    hand.closed_tiles \o MeldTiles(hand.melds) \o hand.draw_tile
        \o hand.dora_indicators \o hand.uradora_indicators

\* Hand.all_tiles
all_tiles(hand) ==
    hand.closed_tiles \o MeldTiles(hand.melds) \o hand.draw_tile

RECURSIVE SumMeldLens(_)
SumMeldLens(melds) ==
    IF melds = <<>> THEN 0
    ELSE Len(Head(melds).tiles) + SumMeldLens(Tail(melds))

\* Hand.total_tile_count
total_tile_count(hand) ==
    Len(hand.closed_tiles) + SumMeldLens(hand.melds)
        + (IF hand.draw_tile # <<>> THEN 1 ELSE 0)

(***************************************************************************)
(* Error messages.  A message is a sequence of fragments; an f-string with *)
(* one interpolated value is one fragment: its literal text, the           *)
(* interpolated str and the interpolated int.                              *)
(***************************************************************************)
Fragment(kind, text, count) == [kind |-> kind, text |-> text, count |-> count]

Separator == Fragment("; ", <<>>, 0)

\* "; ".join(errors)
RECURSIVE Join(_)
Join(errs) ==
    IF errs = <<>> THEN <<>>
    ELSE IF Len(errs) = 1 THEN Head(errs)
    ELSE Head(errs) \o <<Separator>> \o Join(Tail(errs))

\* Bind x to the value of v in F: a local name that is written once.
Let(v, F(_)) == F(v)

(***************************************************************************)
(* parser.py: the two patterns.  A match is a record of its offsets and    *)
(* groups; MatchAt gives <<match>> or <<>> at one start offset, and        *)
(* finditer scans left to right, resuming at the end of each match.        *)
(***************************************************************************)
\* The end of the longest run of [0-9] starting at offset p
RECURSIVE DigitRunEnd(_, _)
DigitRunEnd(s, p) ==
    IF p < Len(s) /\ s[p + 1] \in DigitChars THEN DigitRunEnd(s, p + 1) ELSE p

\* TILE_GROUP_PATTERN = ([0-9]+)([mpsz]) tried at offset p.  [0-9]+ is
\* greedy; giving digits back never helps, since the suit would then have
\* to match a digit.
TILE_GROUP_PATTERN_MatchAt(s, p) ==
    Let(DigitRunEnd(s, p), LAMBDA q :
        IF q > p /\ q < Len(s) /\ s[q + 1] \in SuitChars
        THEN <<[start |-> p, end |-> q + 1,
                group1 |-> Slice(s, p, q), group2 |-> s[q + 1]]>>
        ELSE <<>>)

RECURSIVE TILE_GROUP_PATTERN_finditer(_, _)
TILE_GROUP_PATTERN_finditer(s, p) ==
    IF p >= Len(s) THEN <<>>
    ELSE Let(TILE_GROUP_PATTERN_MatchAt(s, p), LAMBDA m :
             m \o TILE_GROUP_PATTERN_finditer(s,
                      IF m # <<>> THEN m[1].end ELSE p + 1))

\* The tail ([mpsz])([<^>])?(\]|\)) of MELD_PATTERN tried at offset r:
\* <<[suit, source, close, end]>> or <<>>.  ([<^>])? prefers to match.
MeldTailAt(s, r) ==
    IF ~(r < Len(s) /\ s[r + 1] \in SuitChars) THEN <<>>
    ELSE IF r + 2 < Len(s) /\ s[r + 2] \in SourceChars /\ s[r + 3] \in CloseChars
         THEN <<[suit |-> s[r + 1], source |-> <<s[r + 2]>>,
                 close |-> s[r + 3], end |-> r + 3]>>
         ELSE IF r + 1 < Len(s) /\ s[r + 2] \in CloseChars
              THEN <<[suit |-> s[r + 1], source |-> <<>>,
                      close |-> s[r + 2], end |-> r + 2]>>
              ELSE <<>>

\* The match that starts at p, has the digits s[p+1:q] as group 2, g3 and
\* g4 as groups 3 and 4 and the tail t; <<>> when the tail did not match
MeldMatch(s, p, q, g3, g4, t) ==
    IF t = <<>> THEN <<>>
    ELSE <<[start |-> p, end |-> t[1].end, group0 |-> Slice(s, p, t[1].end),
            group1 |-> s[p + 1], group2 |-> Slice(s, p + 1, q),
            group3 |-> g3, group4 |-> g4, group5 |-> t[1].suit,
            group6 |-> t[1].source, group7 |-> t[1].close]>>

\* The first of a, b, c that is a match
FirstMatch(a, b, c) == IF a # <<>> THEN a ELSE IF b # <<>> THEN b ELSE c

\* MELD_PATTERN = (\[|\()([0-9]+)(\+)?([0-9])?([mpsz])([<^>])?(\]|\)) tried
\* at offset p.  Group 2 takes the whole digit run; then, in the order the
\* engine tries them: "+" and a digit, "+" alone, neither.  A shorter group
\* 2 leaves a digit for group 4 and the tail at the same offset as
\* "neither", so it matches only where "neither" already did.
MELD_PATTERN_MatchAt(s, p) ==
    IF ~(p < Len(s) /\ s[p + 1] \in OpenChars) THEN <<>>
    ELSE Let(DigitRunEnd(s, p + 1), LAMBDA q :
        IF q = p + 1 THEN <<>>
        ELSE FirstMatch(
            IF q + 1 < Len(s) /\ s[q + 1] = "+" /\ s[q + 2] \in DigitChars
            THEN MeldMatch(s, p, q, <<"+">>, <<s[q + 2]>>, MeldTailAt(s, q + 2))
            ELSE <<>>,
            IF q < Len(s) /\ s[q + 1] = "+"
            THEN MeldMatch(s, p, q, <<"+">>, <<>>, MeldTailAt(s, q + 1))
            ELSE <<>>,
            MeldMatch(s, p, q, <<>>, <<>>, MeldTailAt(s, q))))

RECURSIVE MELD_PATTERN_finditer(_, _)
MELD_PATTERN_finditer(s, p) ==
    IF p >= Len(s) THEN <<>>
    ELSE Let(MELD_PATTERN_MatchAt(s, p), LAMBDA m :
             m \o MELD_PATTERN_finditer(s,
                      IF m # <<>> THEN m[1].end ELSE p + 1))

\* MELD_PATTERN.sub("", s): what lies between the matches
RECURSIVE MELD_PATTERN_sub(_, _)
MELD_PATTERN_sub(s, p) ==
    IF p >= Len(s) THEN <<>>
    ELSE Let(MELD_PATTERN_MatchAt(s, p), LAMBDA m :
             IF m # <<>> THEN MELD_PATTERN_sub(s, m[1].end)
             ELSE <<s[p + 1]>> \o MELD_PATTERN_sub(s, p + 1))

(***************************************************************************)
(* parser.py: MahjongParser.  Each private method takes self.errors and    *)
(* gives back its return value with the new self.errors.                   *)
(***************************************************************************)
\* The inner loop of _parse_tiles: one Tile per digit of a group, an
\* "Invalid tile" error for a digit with no catalog entry
RECURSIVE ParseGroupDigits(_, _, _, _)
ParseGroupDigits(numbers, suit, tiles, errs) ==
    IF numbers = <<>> THEN [tiles |-> tiles, errors |-> errs]
    ELSE Let(int(Head(numbers)), LAMBDA number :
             IF get_tile_info(suit, number) = <<>>
             THEN ParseGroupDigits(Tail(numbers), suit, tiles,
                      Append(errs, <<Fragment("Invalid tile: ",
                                              <<str(number), suit>>, 0)>>))
             ELSE ParseGroupDigits(Tail(numbers), suit,
                      Append(tiles, Tile(suit, number)), errs))

\* The outer loop of _parse_tiles over the matches
RECURSIVE ParseGroups(_, _)
ParseGroups(matches, st) ==
    IF matches = <<>> THEN st
    ELSE Let(ParseGroupDigits(Head(matches).group1, Head(matches).group2,
                              st.tiles, st.errors), LAMBDA r :
             ParseGroups(Tail(matches),
                 [tiles |-> r.tiles, errors |-> r.errors,
                  invalid_notation |->
                      st.invalid_notation \/ Head(matches).start # st.last_end,
                  matched_any |-> TRUE,
                  last_end |-> Head(matches).end]))

\* _parse_tiles without the "last_end != len(clean)" test: what follows
\* the last group goes unnoticed
_parse_tiles_NoLeftoverCheck(s, errs) ==
    Let(RemoveChars(s, {"_", " ", "|"}), LAMBDA clean :
        IF clean = <<>> THEN [tiles |-> <<>>, errors |-> errs]
        ELSE Let(ParseGroups(TILE_GROUP_PATTERN_finditer(clean, 0),
                     [tiles |-> <<>>, errors |-> errs,
                      invalid_notation |-> FALSE, matched_any |-> FALSE,
                      last_end |-> 0]), LAMBDA st :
                 [tiles |-> st.tiles,
                  errors |->
                      IF st.invalid_notation \/ ~st.matched_any
                      THEN Append(st.errors,
                               <<Fragment("Invalid tile notation: ", clean, 0)>>)
                      ELSE st.errors]))

_parse_tiles(s, errs) ==
    Let(RemoveChars(s, {"_", " ", "|"}), LAMBDA clean :
        IF clean = <<>> THEN [tiles |-> <<>>, errors |-> errs]
        ELSE Let(ParseGroups(TILE_GROUP_PATTERN_finditer(clean, 0),
                     [tiles |-> <<>>, errors |-> errs,
                      invalid_notation |-> FALSE, matched_any |-> FALSE,
                      last_end |-> 0]), LAMBDA st :
                 [tiles |-> st.tiles,
                  errors |->
                      IF st.invalid_notation \/ ~st.matched_any
                         \/ st.last_end # Len(clean)
                      THEN Append(st.errors,
                               <<Fragment("Invalid tile notation: ", clean, 0)>>)
                      ELSE st.errors]))

\* sorted(xs) for a list of int
RECURSIVE Insert(_, _)
Insert(x, xs) ==
    IF xs = <<>> \/ x <= Head(xs) THEN <<x>> \o xs
    ELSE <<Head(xs)>> \o Insert(x, Tail(xs))

RECURSIVE sorted(_)
sorted(xs) == IF xs = <<>> THEN <<>> ELSE Insert(Head(xs), sorted(Tail(xs)))

\* _is_sequence without "5 if t.number == 0": a red five is number 0
_is_sequence_NoRedFive(tiles) ==
    IF Len(tiles) # 3 THEN FALSE
    ELSE IF Cardinality({tiles[i].suit : i \in 1..Len(tiles)}) # 1
            \/ "z" \in {tiles[i].suit : i \in 1..Len(tiles)}
    THEN FALSE
    ELSE Let(sorted([i \in 1..Len(tiles) |-> tiles[i].number]),
             LAMBDA numbers :
                 numbers[2] = numbers[1] + 1 /\ numbers[3] = numbers[2] + 1)

_is_sequence(tiles) ==
    IF Len(tiles) # 3 THEN FALSE
    ELSE IF Cardinality({tiles[i].suit : i \in 1..Len(tiles)}) # 1
            \/ "z" \in {tiles[i].suit : i \in 1..Len(tiles)}
    THEN FALSE
    ELSE Let(sorted([i \in 1..Len(tiles) |->
                        IF tiles[i].number = 0 THEN 5 ELSE tiles[i].number]),
             LAMBDA numbers :
                 numbers[2] = numbers[1] + 1 /\ numbers[3] = numbers[2] + 1)

\* The rotation block with "2" for every meld called from the right, the
\* open kan included
RotateTiles_RightIsThird(tiles, meld_type, source) ==
    IF source # SELF /\ tiles # <<>>
    THEN Let([tiles EXCEPT ![(IF source = LEFT THEN 0
                              ELSE IF source = ACROSS THEN 1
                              ELSE 2) + 1].is_rotated = TRUE],
             LAMBDA t1 :
                 IF meld_type = "kan_added"
                 THEN [t1 EXCEPT ![Len(t1)].is_rotated = TRUE,
                                 ![Len(t1)].is_added = TRUE]
                 ELSE t1)
    ELSE tiles

\* The rotation block with "3" for every kan called from the right, the
\* added kan included
RotateTiles_RightIsLastOfKan(tiles, meld_type, source) ==
    IF source # SELF /\ tiles # <<>>
    THEN Let([tiles EXCEPT ![(IF source = LEFT THEN 0
                              ELSE IF source = ACROSS THEN 1
                              ELSE IF Len(tiles) = 4 THEN 3
                              ELSE 2) + 1].is_rotated = TRUE],
             LAMBDA t1 :
                 IF meld_type = "kan_added"
                 THEN [t1 EXCEPT ![Len(t1)].is_rotated = TRUE,
                                 ![Len(t1)].is_added = TRUE]
                 ELSE t1)
    ELSE tiles

\* The rotation block of _parse_melds: tiles[rotated_idx].is_rotated = True
\* and, for an added kan, tiles[-1].is_rotated = tiles[-1].is_added = True
RotateTiles(tiles, meld_type, source) ==
    IF source # SELF /\ tiles # <<>>
    THEN Let([tiles EXCEPT ![(IF source = LEFT THEN 0
                              ELSE IF source = ACROSS THEN 1
                              ELSE IF meld_type = "kan_open" THEN 3
                              ELSE 2) + 1].is_rotated = TRUE],
             LAMBDA t1 :
                 IF meld_type = "kan_added"
                 THEN [t1 EXCEPT ![Len(t1)].is_rotated = TRUE,
                                 ![Len(t1)].is_added = TRUE]
                 ELSE t1)
    ELSE tiles

\* The if/elif chain of _parse_melds that picks the meld type; <<>> is the
\* final else ("Invalid meld size")
ClassifyMeld(tiles, is_added_kan, is_closed) ==
    IF is_added_kan /\ Len(tiles) = 4 THEN <<"kan_added">>
    ELSE IF is_closed /\ Len(tiles) = 4 THEN <<"kan_closed">>
    ELSE IF Len(tiles) = 4 THEN <<"kan_open">>
    ELSE IF Len(tiles) = 3
         THEN <<IF _is_sequence(tiles) THEN "chi" ELSE "pon">>
    ELSE <<>>

\* _parse_melds from "is_closed = ..." to melds.append(...), for one
\* match: r is what self._parse_tiles(tile_notation) gave, tiles not empty
MeldFromTiles(match, st, is_added_kan, r) ==
    Let(match.group1 = "[" /\ match.group7 = "]", LAMBDA is_closed :
        IF is_closed /\ match.group6 # <<>>
        THEN [st EXCEPT !.errors = Append(r.errors,
                 <<Fragment("Closed kan cannot have source marker: ",
                            match.group0, 0)>>)]
        ELSE Let(ClassifyMeld(r.tiles, is_added_kan, is_closed),
                 LAMBDA meld_type :
            IF meld_type = <<>>
            THEN [st EXCEPT !.errors = Append(r.errors,
                     <<Fragment("Invalid meld size: ", <<>>, Len(r.tiles))>>)]
            ELSE [melds |-> Append(st.melds,
                      Meld(RotateTiles(r.tiles, meld_type[1],
                                       SourceOf(match.group6)),
                           meld_type[1], SourceOf(match.group6))),
                  errors |-> r.errors]))

\* One iteration of the loop of _parse_melds, on one match; group1 ..
\* group7 are open_bracket, base_numbers, plus_marker, added_number, suit,
\* source_char, close_bracket
ParseOneMeld(match, st) ==
    IF (match.group1 = "[" /\ match.group7 # "]")
       \/ (match.group1 = "(" /\ match.group7 # ")")
    THEN [st EXCEPT !.errors = Append(@,
             <<Fragment("Mismatched brackets in meld: ", match.group0, 0)>>)]
    ELSE IF match.group3 # <<>> /\ match.group4 = <<>>
    THEN [st EXCEPT !.errors = Append(@,
             <<Fragment("Added kan notation requires digit after '+': ",
                        match.group0, 0)>>)]
    ELSE Let(_parse_tiles(
                 IF match.group3 # <<>> /\ match.group4 # <<>>
                 THEN match.group2 \o match.group4 \o <<match.group5>>
                 ELSE match.group2 \o <<match.group5>>,
                 st.errors), LAMBDA r :
             IF r.tiles = <<>> THEN [st EXCEPT !.errors = r.errors]
             ELSE MeldFromTiles(match, st,
                      match.group3 # <<>> /\ match.group4 # <<>>, r))

RECURSIVE ParseMeldMatches(_, _)
ParseMeldMatches(matches, st) ==
    IF matches = <<>> THEN st
    ELSE ParseMeldMatches(Tail(matches), ParseOneMeld(Head(matches), st))

_parse_melds(s, errs) ==
    ParseMeldMatches(MELD_PATTERN_finditer(s, 0),
                     [melds |-> <<>>, errors |-> errs])

\* Counter(...): the distinct (suit, number) pairs in first-seen order
RECURSIVE CounterKeys(_, _)
CounterKeys(tiles, seen) ==
    IF tiles = <<>> THEN <<>>
    ELSE IF <<Head(tiles).suit, Head(tiles).number>> \in seen
         THEN CounterKeys(Tail(tiles), seen)
         ELSE <<<<Head(tiles).suit, Head(tiles).number>>>>
              \o CounterKeys(Tail(tiles),
                     seen \cup {<<Head(tiles).suit, Head(tiles).number>>})

\* A Counter keyed on the face value: a red five counts as a five
CounterCount_RedFiveAsFive(tiles, k) ==
    Cardinality({i \in 1..Len(tiles) :
                    /\ tiles[i].suit = k[1]
                    /\ (IF tiles[i].number = 0 THEN 5 ELSE tiles[i].number)
                           = (IF k[2] = 0 THEN 5 ELSE k[2])})

\* Counter(...)[k]
CounterCount(tiles, k) ==
    Cardinality({i \in 1..Len(tiles) :
                    tiles[i].suit = k[1] /\ tiles[i].number = k[2]})

\* The loop of _validate_tile_counts over counts.items()
RECURSIVE CountErrors(_, _, _)
CountErrors(keys, tiles, errs) ==
    IF keys = <<>> THEN errs
    ELSE Let(CounterCount(tiles, Head(keys)), LAMBDA count :
             CountErrors(Tail(keys), tiles,
                 IF count > 4
                 THEN Append(errs, <<Fragment("Invalid tile count: ",
                          <<str(Head(keys)[2]), Head(keys)[1]>>, count)>>)
                 ELSE errs))

\* _validate_tile_counts: the new self.errors
_validate_tile_counts(hand, errs) ==
    Let(all_tiles(hand), LAMBDA tiles :
        CountErrors(CounterKeys(tiles, {}), tiles, errs))

\* What a call gives its caller: a returned value or a raised ParseError
Returned(kind, value) == [kind |-> kind, value |-> value, message |-> <<>>]

Raised(message) == [kind |-> "ParseError", value |-> <<>>, message |-> message]

NoResult == [kind |-> "none", value |-> <<>>, message |-> <<>>]

\* parse with "if self.errors: raise" before _validate_tile_counts: a count
\* error is recorded but not raised
parse_RaiseBeforeCounts(s) ==
    Let(strip(s), LAMBDA stripped :
    Let(_parse_melds(stripped, <<>>), LAMBDA pm :
    Let(_parse_tiles(strip(MELD_PATTERN_sub(stripped, 0)), pm.errors),
        LAMBDA pt :
    Let([Hand EXCEPT !.melds = pm.melds, !.closed_tiles = pt.tiles],
        LAMBDA hand :
    Let(_validate_tile_counts(hand, pt.errors), LAMBDA errs :
        [result |-> IF pt.errors # <<>> THEN Raised(Join(pt.errors))
                    ELSE Returned("Hand", <<hand>>),
         errors |-> errs])))))

\* MahjongParser.parse: [result, errors], errors being self.errors after
\* the call
parse(s) ==
    Let(strip(s), LAMBDA stripped :
    Let(_parse_melds(stripped, <<>>), LAMBDA pm :
    Let(_parse_tiles(strip(MELD_PATTERN_sub(stripped, 0)), pm.errors),
        LAMBDA pt :
    Let([Hand EXCEPT !.melds = pm.melds, !.closed_tiles = pt.tiles],
        LAMBDA hand :
    Let(_validate_tile_counts(hand, pt.errors), LAMBDA errs :
        [result |-> IF errs # <<>> THEN Raised(Join(errs))
                    ELSE Returned("Hand", <<hand>>),
         errors |-> errs])))))

\* MahjongParser.parse_tiles
parse_tiles(s) ==
    Let(_parse_tiles(s, <<>>), LAMBDA pt :
        [result |-> IF pt.errors # <<>> THEN Raised(Join(pt.errors))
                    ELSE Returned("Tiles", pt.tiles),
         errors |-> pt.errors])

(***************************************************************************)
(* utils.py                                                                *)
(***************************************************************************)
UpperSeq == <<"A", "B", "C", "D", "E", "F", "G", "H", "I", "J", "K", "L", "M",
              "N", "O", "P", "Q", "R", "S", "T", "U", "V", "W", "X", "Y", "Z">>

LowerSeq == <<"a", "b", "c", "d", "e", "f", "g", "h", "i", "j", "k", "l", "m",
              "n", "o", "p", "q", "r", "s", "t", "u", "v", "w", "x", "y", "z">>

\* str.lower()
lower(s) ==
    [i \in 1..Len(s) |->
        IF \E j \in 1..26 : UpperSeq[j] = s[i]
        THEN LowerSeq[CHOOSE j \in 1..26 : UpperSeq[j] = s[i]]
        ELSE s[i]]

\* The offset of the first c in s from offset p on, or Len(s) when there
\* is none
RECURSIVE find(_, _, _)
find(s, c, p) ==
    IF p >= Len(s) \/ s[p + 1] = c THEN p ELSE find(s, c, p + 1)

\* str.split("\n")
RECURSIVE split(_)
split(s) ==
    Let(find(s, "\n", 0), LAMBDA p :
        IF p >= Len(s) THEN <<s>>
        ELSE <<Slice(s, 0, p)>> \o split(Slice(s, p + 1, Len(s))))

\* str.strip("\"'")
RECURSIVE strip_quotes(_)
strip_quotes(s) ==
    IF s # <<>> /\ Head(s) \in {"\"", "'"} THEN strip_quotes(Tail(s))
    ELSE IF s # <<>> /\ s[Len(s)] \in {"\"", "'"}
         THEN strip_quotes(SubSeq(s, 1, Len(s) - 1))
         ELSE s

KEY_HAND == <<"h", "a", "n", "d">>

KEY_TITLE == <<"t", "i", "t", "l", "e">>

KEY_DORA == <<"d", "o", "r", "a">>

KEY_URADORA == <<"u", "r", "a", "d", "o", "r", "a">>

KEY_DRAW == <<"d", "r", "a", "w">>

\* options[key] = value
SetItem(options, key, value) ==
    [k \in (DOMAIN options) \cup {key} |-> IF k = key THEN value ELSE options[k]]

\* The "if ':' in line" branch of parse_block_content: p is the offset of
\* the first ":" of line
ParseKeyValue(line, p, st) ==
    Let(lower(strip(Slice(line, 0, p))), LAMBDA key :
    Let(strip_quotes(strip(Slice(line, p + 1, Len(line)))), LAMBDA value :
        IF key = KEY_HAND THEN [st EXCEPT !.notation = value]
        ELSE IF key \in {KEY_TITLE, KEY_DORA, KEY_URADORA, KEY_DRAW}
        THEN [st EXCEPT !.options = SetItem(@, key, value)]
        ELSE IF st.notation = <<>> THEN [st EXCEPT !.notation = line]
        ELSE st))

\* The body of the loop of parse_block_content, on one line
ParseBlockLine(raw, st) ==
    Let(strip(raw), LAMBDA line :
        IF line = <<>> THEN st
        ELSE IF find(line, ":", 0) < Len(line)
        THEN ParseKeyValue(line, find(line, ":", 0), st)
        ELSE IF st.notation = <<>> THEN [st EXCEPT !.notation = line]
        ELSE st)

RECURSIVE ParseBlockLines(_, _)
ParseBlockLines(lines, st) ==
    IF lines = <<>> THEN st
    ELSE ParseBlockLines(Tail(lines), ParseBlockLine(Head(lines), st))

\* parse_block_content: [notation, options]
parse_block_content(c) ==
    ParseBlockLines(split(c), [notation |-> <<>>, options |-> <<>>])

\* One "if key in options: try ... except ParseError" block of
\* apply_hand_options; st is [hand, errors, parser_errors]
ApplyOption(st, options, key, prefix, Assign(_, _)) ==
    IF key \notin DOMAIN options THEN st
    ELSE Let(parse(options[key]), LAMBDA r :
             IF r.result.kind = "ParseError"
             THEN [st EXCEPT
                      !.errors = Append(@, <<Fragment(prefix, <<>>, 0)>>
                                             \o r.result.message),
                      !.parser_errors = r.errors]
             ELSE [st EXCEPT
                      !.hand = Assign(@, r.result.value[1]),
                      !.parser_errors = r.errors])

\* hand.dora_indicators = dora_hand.all_tiles
SetDora(hand, dora_hand) ==
    [hand EXCEPT !.dora_indicators = all_tiles(dora_hand)]

\* hand.uradora_indicators = uradora_hand.all_tiles
SetUradora(hand, uradora_hand) ==
    [hand EXCEPT !.uradora_indicators = all_tiles(uradora_hand)]

\* if draw_hand.closed_tiles: hand.draw_tile = draw_hand.closed_tiles[0]
SetDraw(hand, draw_hand) ==
    IF draw_hand.closed_tiles # <<>>
    THEN [hand EXCEPT !.draw_tile = <<draw_hand.closed_tiles[1]>>]
    ELSE hand

\* apply_hand_options returning at the first option that fails
apply_hand_options_StopAtFirstError(hand, parser_errors, options) ==
    Let(ApplyOption([hand |-> hand, errors |-> <<>>,
                     parser_errors |-> parser_errors],
                    options, KEY_DORA, "Invalid dora notation: ", SetDora),
        LAMBDA d :
            IF d.errors # <<>> THEN d
            ELSE Let(ApplyOption(d, options, KEY_URADORA,
                                 "Invalid uradora notation: ", SetUradora),
                     LAMBDA u :
                         IF u.errors # <<>> THEN u
                         ELSE ApplyOption(u, options, KEY_DRAW,
                                          "Invalid draw notation: ", SetDraw)))

\* apply_hand_options: [hand, errors, parser_errors], hand being the hand
\* after the assignments, errors the returned list and parser_errors the
\* parser's self.errors after the call
apply_hand_options(hand, parser_errors, options) ==
    ApplyOption(
        ApplyOption(
            ApplyOption([hand |-> hand, errors |-> <<>>,
                         parser_errors |-> parser_errors],
                        options, KEY_DORA, "Invalid dora notation: ", SetDora),
            options, KEY_URADORA, "Invalid uradora notation: ", SetUradora),
        options, KEY_DRAW, "Invalid draw notation: ", SetDraw)

\* parse_hand_block: [result, errors]; it returns (hand, options, notation).
\* parser_errors is the parser's self.errors before the call
parse_hand_block(c, parser_errors) ==
    Let(parse_block_content(c), LAMBDA b :
        IF b.notation = <<>>
        THEN [result |-> Raised(<<Fragment("No hand notation provided",
                                           <<>>, 0)>>),
              errors |-> parser_errors]
        ELSE Let(parse(b.notation), LAMBDA r :
            IF r.result.kind = "ParseError" THEN r
            ELSE Let(apply_hand_options(r.result.value[1], r.errors, b.options),
                     LAMBDA a :
                IF a.errors # <<>>
                THEN [result |-> Raised(Join(a.errors)),
                      errors |-> a.parser_errors]
                ELSE [result |-> Returned("HandBlock",
                                    <<[hand |-> a.hand, options |-> b.options,
                                       notation |-> b.notation]>>),
                      errors |-> a.parser_errors])))

(***************************************************************************)
(* renderer.py.  The markup is kept as the list of strings the code builds *)
(* (parts), each string a record: an opening tag, a closing tag, or a      *)
(* whole element with what is inside it.  A class is a name and, where the *)
(* code formats one in, the value formatted in.  An SVG is what tells two  *)
(* of them apart: where it came from, for which tile, in which theme, and  *)
(* the prefix put on its ids.                                              *)
(***************************************************************************)
CssClass(name, arg) == [name |-> name, arg |-> arg]

Markup(kind, classes, data, title, text, inner) ==
    [kind |-> kind, classes |-> classes, data |-> data, title |-> title,
     text |-> text, inner |-> inner]

OpenTag(classes) == Markup("open", classes, <<>>, <<>>, <<>>, <<>>)

CloseTag == Markup("close", <<>>, <<>>, <<>>, <<>>, <<>>)

\* MahjongRenderer(theme, closed_kan_style)
MahjongRenderer(theme, closed_kan_style) ==
    [theme |-> theme, closed_kan_style |-> closed_kan_style,
     css_class |-> "mahjong-hand"]

\* The state of a program that has rendered nothing
NoRendering ==
    /\ renderer = MahjongRenderer("light", "outer")
    /\ svg_id_counter = 1
    /\ given_title = <<>>
    /\ svg_cache = <<>>
    /\ blocks = <<>>
    /\ parent = <<>>

_BACK_TILE_HTML ==
    Markup("span", <<CssClass("mahjong-tile", ""), CssClass("mahjong-tile-back", "")>>,
           <<>>, <<>>, <<>>, <<>>)

\* html.escape(s, quote=True)
RECURSIVE html_escape(_)
html_escape(s) ==
    IF s = <<>> THEN <<>>
    ELSE (CASE Head(s) = "&" -> <<"&", "a", "m", "p", ";">>
            [] Head(s) = "<" -> <<"&", "l", "t", ";">>
            [] Head(s) = ">" -> <<"&", "g", "t", ";">>
            [] Head(s) = "\"" -> <<"&", "q", "u", "o", "t", ";">>
            [] Head(s) = "'" -> <<"&", "#", "x", "2", "7", ";">>
            [] OTHER -> <<Head(s)>>) \o html_escape(Tail(s))

\* The themes the package ships tile assets for
AssetThemes == {"light", "dark"}

\* _load_and_process_svg: <<svg>>, or <<>> when the asset file is not found
_load_and_process_svg(asset_name, theme) ==
    IF theme \in AssetThemes
    THEN <<[source |-> "asset", name |-> asset_name, theme |-> theme,
            id_prefix |-> 0]>>
    ELSE <<>>

\* @functools.lru_cache(maxsize=128)
maxsize == 128

\* The offset of the entry of key in cache, or Len(cache) when it has none
RECURSIVE CacheFind(_, _, _)
CacheFind(cache, key, p) ==
    IF p >= Len(cache) \/ cache[p + 1].key = key THEN p
    ELSE CacheFind(cache, key, p + 1)

\* A call of a function wrapped by lru_cache(size) with the cache as it
\* stands: [value, cache].  A hit returns the stored value and makes the
\* entry the most recently used; a miss runs the function and, unless it
\* raised (value <<>>), stores what it returned, the least recently used
\* entry making room when the cache is full
lru_cache_call(size, cache, asset_name, theme) ==
    Let(CacheFind(cache, <<asset_name, theme>>, 0), LAMBDA p :
        IF p < Len(cache)
        THEN [value |-> <<cache[p + 1].value>>,
              cache |-> Slice(cache, 0, p) \o Slice(cache, p + 1, Len(cache))
                            \o <<cache[p + 1]>>]
        ELSE IF _load_and_process_svg(asset_name, theme) = <<>>
        THEN [value |-> <<>>, cache |-> cache]
        ELSE [value |-> _load_and_process_svg(asset_name, theme),
              cache |-> (IF Len(cache) >= size THEN Tail(cache) ELSE cache)
                            \o <<[key |-> <<asset_name, theme>>,
                                  value |-> _load_and_process_svg(asset_name, theme)[1]]>>])

\* _load_and_process_svg behind a cache of one entry
cached_load_and_process_svg_OneEntry(cache, asset_name, theme) ==
    lru_cache_call(1, cache, asset_name, theme)

\* _load_and_process_svg as the renderer calls it, through its lru_cache
cached_load_and_process_svg(cache, asset_name, theme) ==
    lru_cache_call(maxsize, cache, asset_name, theme)

\* _placeholder_svg giving the glyph of an asset that does not exist
_placeholder_svg_AsAsset(info) ==
    [source |-> "asset", name |-> info.asset_name, theme |-> "", id_prefix |-> 0]

\* _placeholder_svg
_placeholder_svg(info) ==
    [source |-> "placeholder", name |-> info.display_name, theme |-> "",
     id_prefix |-> 0]

\* _make_ids_unique: the ids of the SVG and the references to them get the
\* prefix mj<n>_
_make_ids_unique(svg_content, n) == [svg_content EXCEPT !.id_prefix = n]

\* _get_themed_svg_content emitting the light variant only
_get_themed_svg_content_LightOnly(self, info, counter) ==
    [inner |-> <<[wrapper |-> <<CssClass("mahjong-tile-light", "")>>,
                  svg |-> _make_ids_unique(
                             _load_and_process_svg(info.asset_name, "light")[1],
                             counter)]>>,
     counter |-> counter + 1]

\* next(_svg_id_counter) giving the value again at the next call
next_svg_id_Repeats(counter) == [value |-> counter, counter |-> counter]

\* next(_svg_id_counter): [value, counter], the value returned and the
\* counter after the call; itertools.count hands out each value once, to
\* whichever thread calls
next_svg_id(counter) == [value |-> counter, counter |-> counter + 1]

\* _get_svg_content: [svg, counter], the SVG and the counter after it.
\* theme is <<>> for None
_get_svg_content(self, info, theme, counter) ==
    Let(IF theme # <<>> /\ theme # <<"">> THEN theme[1]
        ELSE IF self.theme # "auto" THEN self.theme ELSE "light",
        LAMBDA th :
            [svg |-> _make_ids_unique(
                         IF _load_and_process_svg(info.asset_name, th) # <<>>
                         THEN _load_and_process_svg(info.asset_name, th)[1]
                         ELSE _placeholder_svg(info),
                         next_svg_id(counter).value),
             counter |-> next_svg_id(counter).counter])

\* _get_themed_svg_content: [inner, counter], the two wrapped SVGs
_get_themed_svg_content(self, info, counter) ==
    Let(_get_svg_content(self, info, <<"light">>, counter), LAMBDA light :
    Let(_get_svg_content(self, info, <<"dark">>, light.counter), LAMBDA dark :
        [inner |-> <<[wrapper |-> <<CssClass("mahjong-tile-light", "")>>,
                      svg |-> light.svg],
                     [wrapper |-> <<CssClass("mahjong-tile-dark", "")>>,
                      svg |-> dark.svg]>>,
         counter |-> dark.counter]))

\* The SVG content of a tile: the themed pair under "auto", else one SVG
SvgContent(self, info, counter) ==
    IF self.theme = "auto" THEN _get_themed_svg_content(self, info, counter)
    ELSE Let(_get_svg_content(self, info, <<>>, counter), LAMBDA one :
             [inner |-> <<[wrapper |-> <<>>, svg |-> one.svg]>>,
              counter |-> one.counter])

\* The classes of a face-up tile
TileClasses(self, tile) ==
    <<CssClass("mahjong-tile", "")>>
        \o (IF tile.is_rotated THEN <<CssClass("mahjong-tile-rotated", "")>> ELSE <<>>)
        \o (IF tile.is_added THEN <<CssClass("mahjong-tile-added", "")>> ELSE <<>>)
        \o (IF self.theme \in {"light", "dark"}
            THEN <<CssClass("mahjong-theme-", self.theme)>> ELSE <<>>)

\* _render_tile: [parts, counter], parts holding the one string returned
_render_tile(self, tile, counter) ==
    IF get_tile_info(tile.suit, tile.number) = <<>>
    THEN [parts |-> <<Markup("span", <<CssClass("mahjong-tile", ""),
                                       CssClass("mahjong-tile-unknown", "")>>,
                             TileNotation(tile), <<>>, <<"?">>, <<>>)>>,
          counter |-> counter]
    ELSE Let(SvgContent(self, get_tile_info(tile.suit, tile.number)[1], counter),
             LAMBDA svg :
                 [parts |-> <<Markup("span", TileClasses(self, tile),
                                     TileNotation(tile),
                                     get_tile_info(tile.suit, tile.number)[1].display_name,
                                     <<>>, svg.inner)>>,
                  counter |-> svg.counter])

\* for tile in tiles: parts.append(self._render_tile(tile))
RECURSIVE RenderEach(_, _, _)
RenderEach(self, tiles, counter) ==
    IF tiles = <<>> THEN [parts |-> <<>>, counter |-> counter]
    ELSE Let(_render_tile(self, Head(tiles), counter), LAMBDA first :
         Let(RenderEach(self, Tail(tiles), first.counter), LAMBDA rest :
             [parts |-> first.parts \o rest.parts, counter |-> rest.counter]))

\* render_tiles
render_tiles(self, tiles, counter) ==
    Let(RenderEach(self, tiles, counter), LAMBDA r :
        [parts |-> <<OpenTag(<<CssClass(self.css_class, "")>>)>> \o r.parts
                       \o <<CloseTag>>,
         counter |-> r.counter])

\* _render_dora_section
_render_dora_section(self, tiles, label, extra_class, counter) ==
    Let(RenderEach(self, tiles, counter), LAMBDA r :
        [parts |-> <<OpenTag(<<CssClass("mahjong-dora", "")>>
                             \o (IF extra_class = "" THEN <<>>
                                 ELSE <<CssClass(extra_class, "")>>)),
                     Markup("span", <<CssClass("mahjong-dora-label", "")>>,
                            <<>>, <<>>, <<label>>, <<>>),
                     OpenTag(<<CssClass("mahjong-dora-tiles", "")>>)>>
                       \o r.parts \o <<CloseTag, CloseTag>>,
         counter |-> r.counter])

\* The back test of _render_standard_meld with the two styles exchanged
IsBack_StylesExchanged(closed_kan_style, i) ==
    IF closed_kan_style = "inner" THEN i \in {0, 3} ELSE i \in {1, 2}

\* is_back of _render_standard_meld for the tile at offset i of a closed kan
IsBack(closed_kan_style, i) ==
    IF closed_kan_style = "inner" THEN i \in {1, 2} ELSE i \in {0, 3}

\* _render_standard_meld from the tile at offset i on
RECURSIVE StandardMeldFrom(_, _, _, _)
StandardMeldFrom(self, meld, i, counter) ==
    IF i >= Len(meld.tiles) THEN [parts |-> <<>>, counter |-> counter]
    ELSE Let(IF meld.meld_type = "kan_closed" /\ IsBack(self.closed_kan_style, i)
             THEN [parts |-> <<_BACK_TILE_HTML>>, counter |-> counter]
             ELSE _render_tile(self, meld.tiles[i + 1], counter), LAMBDA first :
         Let(StandardMeldFrom(self, meld, i + 1, first.counter), LAMBDA rest :
             [parts |-> first.parts \o rest.parts, counter |-> rest.counter]))

_render_standard_meld(self, meld, counter) == StandardMeldFrom(self, meld, 0, counter)

StackOpen == OpenTag(<<CssClass("mahjong-tile-stack", "")>>)

\* The appends of one branch of _render_added_kan: the offset of a tile, or
\* -1 for the opening and -2 for the closing of the stack
RECURSIVE RenderLayout(_, _, _, _)
RenderLayout(self, meld, layout, counter) ==
    IF layout = <<>> THEN [parts |-> <<>>, counter |-> counter]
    ELSE Let(IF Head(layout) = -1
             THEN [parts |-> <<StackOpen>>, counter |-> counter]
             ELSE IF Head(layout) = -2
             THEN [parts |-> <<CloseTag>>, counter |-> counter]
             ELSE _render_tile(self, meld.tiles[Head(layout) + 1], counter),
             LAMBDA first :
         Let(RenderLayout(self, meld, Tail(layout), first.counter), LAMBDA rest :
             [parts |-> first.parts \o rest.parts, counter |-> rest.counter]))

\* _render_added_kan with the stack in the middle whatever tile is rotated
_render_added_kan_StackInMiddle(self, meld, counter) ==
    RenderLayout(self, meld, <<0, -1, 1, 3, -2, 2>>, counter)

\* _render_added_kan
_render_added_kan(self, meld, counter) ==
    RenderLayout(self, meld,
                 IF meld.tiles[1].is_rotated THEN <<-1, 0, 3, -2, 1, 2>>
                 ELSE IF meld.tiles[3].is_rotated THEN <<0, 1, -1, 2, 3, -2>>
                 ELSE <<0, -1, 1, 3, -2, 2>>,
                 counter)

\* _render_meld: [parts, counter], parts holding the one string returned,
\* the span of the meld with its tiles inside
_render_meld(self, meld, counter) ==
    Let(IF meld.meld_type = "kan_added" THEN _render_added_kan(self, meld, counter)
        ELSE _render_standard_meld(self, meld, counter), LAMBDA r :
        [parts |-> <<Markup("span",
                            <<CssClass("mahjong-meld", ""),
                              CssClass("mahjong-meld-",
                                       IF is_open(meld) THEN "open" ELSE "closed")>>,
                            <<>>, <<>>, <<>>, r.parts)>>,
         counter |-> r.counter])

\* for meld in hand.melds: parts.append(self._render_meld(meld))
RECURSIVE RenderMelds(_, _, _)
RenderMelds(self, melds, counter) ==
    IF melds = <<>> THEN [parts |-> <<>>, counter |-> counter]
    ELSE Let(_render_meld(self, Head(melds), counter), LAMBDA first :
         Let(RenderMelds(self, Tail(melds), first.counter), LAMBDA rest :
             [parts |-> first.parts \o rest.parts, counter |-> rest.counter]))

\* The dora row of render
DoraRow(self, hand, counter) ==
    IF hand.dora_indicators = <<>> /\ hand.uradora_indicators = <<>>
    THEN [parts |-> <<>>, counter |-> counter]
    ELSE Let(IF hand.dora_indicators # <<>>
             THEN _render_dora_section(self, hand.dora_indicators, "Dora:", "",
                                       counter)
             ELSE [parts |-> <<>>, counter |-> counter], LAMBDA d :
         Let(IF hand.uradora_indicators # <<>>
             THEN _render_dora_section(self, hand.uradora_indicators, "Uradora:",
                                       "mahjong-uradora", d.counter)
             ELSE [parts |-> <<>>, counter |-> d.counter], LAMBDA u :
             [parts |-> <<OpenTag(<<CssClass("mahjong-dora-row", "")>>)>>
                            \o d.parts \o u.parts \o <<CloseTag>>,
              counter |-> u.counter]))

\* The hand row of render: closed tiles, draw tile, melds
HandRow(self, hand, counter) ==
    Let(RenderEach(self, hand.closed_tiles, counter), LAMBDA c :
    Let(RenderEach(self, hand.draw_tile, c.counter), LAMBDA w :
    Let(RenderMelds(self, hand.melds, w.counter), LAMBDA m :
        [parts |-> <<OpenTag(<<CssClass("mahjong-hand-row", "")>>),
                     OpenTag(<<CssClass("mahjong-hand-left", "")>>),
                     OpenTag(<<CssClass("mahjong-tiles", "")>>)>>
                       \o c.parts \o <<CloseTag, CloseTag>>
                       \o (IF hand.draw_tile = <<>> THEN <<>>
                           ELSE <<OpenTag(<<CssClass("mahjong-hand-draw", "")>>),
                                  OpenTag(<<CssClass("mahjong-tiles", "")>>)>>
                                    \o w.parts \o <<CloseTag, CloseTag>>)
                       \o (IF hand.melds = <<>> THEN <<>>
                           ELSE <<OpenTag(<<CssClass("mahjong-hand-melds", "")>>),
                                  OpenTag(<<CssClass("mahjong-tiles", "")>>)>>
                                    \o m.parts \o <<CloseTag, CloseTag>>)
                       \o <<CloseTag>>,
         counter |-> m.counter])))

\* render(hand, title, notation): [parts, counter]; title and the notation
\* (data_notation) are <<>> for None
render(self, hand, title, data_notation, counter) ==
    Let(DoraRow(self, hand, counter), LAMBDA d :
    Let(HandRow(self, hand, d.counter), LAMBDA h :
        [parts |-> <<Markup("open", <<CssClass(self.css_class, "")>>,
                            IF data_notation # <<>> /\ data_notation[1] # <<>>
                            THEN html_escape(data_notation[1]) ELSE <<>>,
                            <<>>, <<>>, <<>>)>>
                       \o d.parts \o h.parts
                       \o (IF title # <<>> /\ title[1] # <<>>
                           THEN <<Markup("figcaption",
                                         <<CssClass("mahjong-caption", "")>>,
                                         <<>>, <<>>, html_escape(title[1]), <<>>)>>
                           ELSE <<>>)
                       \o <<CloseTag>>,
         counter |-> h.counter]))

\* The glyphs embedded in the markup, in the order _get_svg_content was
\* called for them
RECURSIVE GlyphsIn(_)
GlyphsIn(parts) ==
    IF parts = <<>> THEN <<>>
    ELSE (IF Head(parts).kind # "span" THEN <<>>
          ELSE IF Head(parts).inner # <<>> /\ "svg" \in DOMAIN Head(parts).inner[1]
          THEN [k \in DOMAIN Head(parts).inner |-> Head(parts).inner[k].svg]
          ELSE GlyphsIn(Head(parts).inner))
         \o GlyphsIn(Tail(parts))

\* The cache after the calls of _load_and_process_svg made for the glyphs:
\* a glyph from an asset was a call that returned, a placeholder was a call
\* that raised and left the cache as it was
RECURSIVE CacheAfter(_, _)
CacheAfter(cache, glyphs) ==
    IF glyphs = <<>> THEN cache
    ELSE CacheAfter(IF Head(glyphs).source = "asset"
                    THEN cached_load_and_process_svg(cache, Head(glyphs).name,
                                                     Head(glyphs).theme).cache
                    ELSE cache,
                    Tail(glyphs))

\* render assigning to the first tile of the hand it is given
HandAfterRender_RotatesFirst(self, hand) ==
    IF hand.closed_tiles = <<>> THEN hand
    ELSE [hand EXCEPT !.closed_tiles[1].is_rotated = TRUE]

\* The hand render was given, after the call: render, _render_meld and
\* _render_tile read the hand, its melds and its tiles and assign to none
HandAfterRender(self, hand) == hand

\* The list render_tiles was given, after the call
TilesAfterRender(self, tiles) == tiles

(***************************************************************************)
(***************************************************************************)
(* The inputs.  Four families of notation and one of block content, each   *)
(* small, each built so that the cases of the grammar occur:               *)
(*   - every string over a few characters (gaps, fillers, stray brackets); *)
(*   - one bracketed meld of every shape after a short closed part;        *)
(*   - one three-digit meld over the digits that make or break a run;      *)
(*   - closed groups of fives and red fives, up to the count ceiling,      *)
(*     followed by a second group or a meld;                               *)
(*   - blocks made of a hand line and dora / uradora / draw lines.         *)
(***************************************************************************)
MaxFree == 4

MaxBase == 4

MaxRun == 5

\* The sequences over D of length lo..hi
Runs(D, lo, hi) == UNION {{f \o <<>> : f \in [1..n -> D]} : n \in lo..hi}

FreeChars == {"1", "8", "z", "(", ")", " ", "_"}

FreeNotations == Runs(FreeChars, 0, MaxFree)

SourceMarks == {<<>>, <<"<">>, <<"^">>, <<">">>}

MeldTexts ==
    {<<o>> \o b \o p \o <<s>> \o src \o <<c>> :
        o \in OpenChars, b \in Runs({"1", "8"}, 1, MaxBase),
        p \in {<<>>, <<"+">>, <<"+", "1">>}, s \in {"m", "z"},
        src \in SourceMarks, c \in CloseChars}

MeldNotations ==
    {pre \o m : pre \in {<<>>, <<"1", "m">>, <<"1", "1", "m", "|">>},
                m \in MeldTexts}

RunNotations ==
    {<<"(">> \o b \o <<s>> \o src \o <<")">> :
        b \in Runs({"0", "3", "4", "5", "6", "9"}, 3, 3), s \in SuitChars,
        src \in SourceMarks}

CountNotations ==
    {b \o <<"m">> \o rest :
        b \in Runs({"5", "0"}, 1, MaxRun),
        rest \in {<<>>, <<"5", "m">>, <<" ", "0", "m">>,
                  <<"(", "5", "5", "5", "m", "<", ")">>,
                  <<"[", "0", "0", "0", "0", "m", "]">>,
                  <<"(", "5", "5", "5", "+", "5", "m", "^", ")">>,
                  <<"1", "1", "1", "1", "1", "p">>,
                  <<"0", "0", "0", "0", "0", "m", "8", "z">>,
                  <<"(", "5", "5", "m", ")", ")">>}}

Notations == FreeNotations \cup MeldNotations \cup RunNotations \cup CountNotations

\* "key: value\n" for each option given (value <<>> means: no such line)
OptionLine(key, value) ==
    IF value = <<>> THEN <<>> ELSE <<"\n">> \o key \o <<":", " ">> \o value

SubNotations ==
    {<<>>, <<"1", "m">>, <<"0", "m">>, <<"8", "z">>,
     <<"(", "1", "1", "1", "m", "<", ")">>, <<"1", "m", "1", "m">>,
     <<"1", "1", "1", "1", "1", "m">>}

Contents ==
    {pre \o hand \o OptionLine(KEY_DORA, dora)
         \o OptionLine(KEY_URADORA, uradora) \o OptionLine(KEY_DRAW, draw) :
        pre \in {<<>>, KEY_HAND \o <<":", " ">>},
        hand \in {<<>>, <<"1", "1", "1", "1", "m">>, <<"1", "1", "1", "m">>,
                  <<"1", "1", "1", "1", "1", "m">>,
                  <<"1", "m", "(", "1", "1", "1", "m", "<", ")">>,
                  <<"5", "5", "5", "5", "m">>},
        dora \in SubNotations, uradora \in {<<>>, <<"1", "m">>, <<"8", "z">>},
        draw \in SubNotations}

(***************************************************************************)
(* The state machine: one parser instance, one call on it.                 *)
(***************************************************************************)
NoCall == [call |-> "none", outcome |-> NoResult]

Init ==
    /\ \/ notation \in Notations /\ content = <<>>
       \/ notation = <<>> /\ content \in Contents
    /\ errors = <<>>
    /\ result = NoCall
    /\ given_tiles = <<>>
    /\ given_hand = Hand
    /\ threads = <<>>
    /\ NoRendering

\* parser.parse(notation)
Parse ==
    /\ result.call = "none"
    /\ LET r == parse(notation)
       IN  /\ errors' = r.errors
           /\ result' = [call |-> "parse", outcome |-> r.result]
    /\ UNCHANGED <<notation, content, given_tiles, given_hand, threads, render_vars>>

\* parser.parse_tiles(notation)
ParseTiles ==
    /\ result.call = "none"
    /\ LET r == parse_tiles(notation)
       IN  /\ errors' = r.errors
           /\ result' = [call |-> "parse_tiles", outcome |-> r.result]
    /\ UNCHANGED <<notation, content, given_tiles, given_hand, threads, render_vars>>

\* parse_hand_block(content, parser)
ParseHandBlock ==
    /\ result.call = "none"
    /\ LET r == parse_hand_block(content, errors)
       IN  /\ errors' = r.errors
           /\ result' = [call |-> "parse_hand_block", outcome |-> r.result]
    /\ UNCHANGED <<notation, content, given_tiles, given_hand, threads, render_vars>>

Next == Parse \/ ParseTiles \/ ParseHandBlock

Spec == Init /\ [][Next]_vars

(***************************************************************************)
(* Tiles and Hands built by the caller: a list of catalog tiles written    *)
(* out and parsed back, and the two derived properties of a Hand.          *)
(***************************************************************************)
MaxTiles == 2

MaxClosed == 2

CatalogTiles == {Tile(k[1], k[2]) : k \in DOMAIN TILE_DATABASE}

TileLists == Runs(CatalogTiles, 0, MaxTiles)

SomeTiles == {Tile("m", 1), Tile("m", 0), Tile("z", 7)}

SomeMelds ==
    {Meld(<<Tile("p", 2), Tile("p", 2), Tile("p", 2)>>, "pon", SELF),
     Meld(<<Tile("z", 1), Tile("z", 1), Tile("z", 1), Tile("z", 1)>>,
          "kan_closed", SELF)}

\* Hand(closed_tiles=..., melds=..., ...)
Hands ==
    {[closed_tiles |-> c, melds |-> ms, dora_indicators |-> d,
      uradora_indicators |-> u, draw_tile |-> w] :
        c \in Runs(SomeTiles, 0, MaxClosed), ms \in Runs(SomeMelds, 0, 2),
        d \in Runs(SomeTiles, 0, 1), u \in Runs({Tile("s", 9)}, 0, 1),
        w \in Runs(SomeTiles, 0, 1)}

\* "".join(t.notation for t in tiles)
RECURSIVE JoinNotations(_)
JoinNotations(ts) ==
    IF ts = <<>> THEN <<>>
    ELSE TileNotation(Head(ts)) \o JoinNotations(Tail(ts))

InitData ==
    /\ \/ given_tiles \in TileLists /\ given_hand = Hand
       \/ given_tiles = <<>> /\ given_hand \in Hands
    /\ notation = <<>>
    /\ content = <<>>
    /\ errors = <<>>
    /\ result = NoCall
    /\ threads = <<>>
    /\ NoRendering

\* parser.parse_tiles("".join(t.notation for t in given_tiles))
RoundTrip ==
    /\ result.call = "none"
    /\ notation' = JoinNotations(given_tiles)
    /\ errors' = parse_tiles(JoinNotations(given_tiles)).errors
    /\ result' = [call |-> "round_trip",
                  outcome |-> parse_tiles(JoinNotations(given_tiles)).result]
    /\ UNCHANGED <<content, given_tiles, given_hand, threads, render_vars>>

\* given_hand.all_tiles and given_hand.total_tile_count
HandProperties ==
    /\ result.call = "none"
    /\ result' = [call |-> "properties",
                  outcome |-> Returned("Properties",
                      <<[all_tiles |-> all_tiles(given_hand),
                         total_tile_count |-> total_tile_count(given_hand)]>>)]
    /\ UNCHANGED <<notation, content, errors, given_tiles, given_hand, threads, render_vars>>

NextData == RoundTrip \/ HandProperties

SpecData == InitData /\ [][NextData]_vars

(***************************************************************************)
(* The options of a block applied to a hand that already carries           *)
(* indicators and a draw tile, next to parse_hand_block on the same block. *)
(***************************************************************************)
OptionHands ==
    {Hand,
     [Hand EXCEPT !.dora_indicators = <<Tile("z", 7)>>,
                  !.uradora_indicators = <<Tile("s", 9)>>,
                  !.draw_tile = <<Tile("z", 7)>>]}

InitOptions ==
    /\ content \in Contents
    /\ given_hand \in OptionHands
    /\ notation = <<>>
    /\ errors = <<>>
    /\ result = NoCall
    /\ given_tiles = <<>>
    /\ threads = <<>>
    /\ NoRendering

\* apply_hand_options(given_hand, parser, options), options being those of
\* the block
ApplyHandOptions ==
    /\ result.call = "none"
    /\ LET a == apply_hand_options(given_hand, errors,
                                   parse_block_content(content).options)
       IN  /\ errors' = a.parser_errors
           /\ result' = [call |-> "apply_hand_options",
                         outcome |-> Returned("Applied",
                             <<[hand |-> a.hand, errors |-> a.errors]>>)]
    /\ UNCHANGED <<notation, content, given_tiles, given_hand, threads, render_vars>>

NextOptions == ApplyHandOptions \/ ParseHandBlock

SpecOptions == InitOptions /\ [][NextOptions]_vars

(***************************************************************************)
(* Blocks of a few lines: blank lines, a bare notation, hand lines with    *)
(* and without a value, option lines and a line with a key that is not an  *)
(* option.  The parser is fresh or as a failed call left it.               *)
(***************************************************************************)
MaxLines == 3

BlockLines ==
    {<<>>, <<" ">>, <<"1", "m">>,
     KEY_HAND \o <<":", " ", "1", "m">>, KEY_HAND \o <<":">>,
     KEY_TITLE \o <<":", " ", "x">>, <<"f", "o", "o", ":", " ", "1", "m">>,
     KEY_DORA \o <<":", " ", "8", "z">>}

\* "\n".join(lines)
RECURSIVE JoinLines(_)
JoinLines(lines) ==
    IF lines = <<>> THEN <<>>
    ELSE IF Len(lines) = 1 THEN lines[1]
    ELSE lines[1] \o <<"\n">> \o JoinLines(Tail(lines))

BlockContents == {JoinLines(ls) : ls \in Runs(BlockLines, 1, MaxLines)}

\* self.errors after parser.parse("8z") raised
StaleErrors == parse(<<"8", "z">>).errors

InitBlocks ==
    /\ content \in BlockContents
    /\ errors \in {<<>>, StaleErrors}
    /\ notation = <<>>
    /\ result = NoCall
    /\ given_tiles = <<>>
    /\ given_hand = Hand
    /\ threads = <<>>
    /\ NoRendering

\* parse_block_content(content)
ParseBlockContent ==
    /\ result.call = "none"
    /\ result' = [call |-> "parse_block_content",
                  outcome |-> Returned("Block", <<parse_block_content(content)>>)]
    /\ UNCHANGED <<notation, content, errors, given_tiles, given_hand, threads, render_vars>>

NextBlocks == ParseBlockContent \/ ParseHandBlock

SpecBlocks == InitBlocks /\ [][NextBlocks]_vars

(***************************************************************************)
(* One parser instance used again and again, and used by two threads at    *)
(* once.  A call is a record of where it stands (pc) and of its locals;    *)
(* self.errors is the one attribute of the instance, read afresh at every  *)
(* access.  A step runs from one access of self.errors to the next method  *)
(* boundary without interruption.                                          *)
(***************************************************************************)
\* self.errors = [] with the attribute left as it was
ResetErrors_Keep(self_errors) == self_errors

\* self.errors = []
ResetErrors(self_errors) == <<>>

\* The locals of a call that has not started
NewCall(method, s) ==
    [pc |-> "start", method |-> method, notation |-> s, stripped |-> <<>>,
     hand |-> Hand, outcome |-> NoResult]

\* One step of parse or parse_tiles: [errors, local], the new self.errors
\* and the new locals.  parse_tiles keeps its tiles in hand.closed_tiles.
ParserStep(self_errors, t) ==
    CASE t.pc = "start" ->
            [errors |-> ResetErrors(self_errors),
             local |-> [t EXCEPT
                 !.pc = IF t.method = "parse" THEN "melds" ELSE "closed",
                 !.stripped = IF t.method = "parse" THEN strip(t.notation)
                              ELSE t.notation]]
      [] t.pc = "melds" ->
            Let(_parse_melds(t.stripped, self_errors), LAMBDA pm :
                [errors |-> pm.errors,
                 local |-> [t EXCEPT !.pc = "closed", !.hand.melds = pm.melds]])
      [] t.pc = "closed" ->
            Let(_parse_tiles(IF t.method = "parse"
                             THEN strip(MELD_PATTERN_sub(t.stripped, 0))
                             ELSE t.stripped, self_errors), LAMBDA pt :
                [errors |-> pt.errors,
                 local |-> [t EXCEPT
                     !.pc = IF t.method = "parse" THEN "validate" ELSE "check",
                     !.hand.closed_tiles = pt.tiles]])
      [] t.pc = "validate" ->
            [errors |-> _validate_tile_counts(t.hand, self_errors),
             local |-> [t EXCEPT !.pc = "check"]]
      [] t.pc = "check" ->
            [errors |-> self_errors,
             local |-> [t EXCEPT
                 !.pc = "done",
                 !.outcome = IF self_errors # <<>> THEN Raised(Join(self_errors))
                             ELSE IF t.method = "parse"
                                  THEN Returned("Hand", <<t.hand>>)
                                  ELSE Returned("Tiles", t.hand.closed_tiles)]]

\* A whole call, run without interruption
RECURSIVE RunCall(_, _)
RunCall(self_errors, t) ==
    IF t.pc = "done" THEN [errors |-> self_errors, local |-> t]
    ELSE Let(ParserStep(self_errors, t), LAMBDA r : RunCall(r.errors, r.local))

MaxCallLen == 2

CallNotations ==
    Runs({"1", "8", "m", "z"}, 0, MaxCallLen)
        \cup {<<"1", "1", "1", "1", "1", "m">>,
              <<"(", "1", "1", "1", "m", "<", ")">>,
              <<"(", "1", "1", "m", ")">>}

\* result.after is the kind of outcome of the call before the last one
InitCalls ==
    /\ errors = <<>>
    /\ result = [call |-> "none", outcome |-> NoResult, after |-> "none"]
    /\ notation = <<>>
    /\ content = <<>>
    /\ given_tiles = <<>>
    /\ given_hand = Hand
    /\ threads = <<>>
    /\ NoRendering

CallOn(method, s) ==
    /\ notation' = s
    /\ errors' = RunCall(errors, NewCall(method, s)).errors
    /\ result' = [call |-> method,
                  outcome |-> RunCall(errors, NewCall(method, s)).local.outcome,
                  after |-> result.outcome.kind]
    /\ UNCHANGED <<content, given_tiles, given_hand, threads, render_vars>>

\* parser.parse(s) on the instance as the earlier calls left it
CallParse == \E s \in CallNotations : CallOn("parse", s)

\* parser.parse_tiles(s) on the instance as the earlier calls left it
CallParseTiles == \E s \in CallNotations : CallOn("parse_tiles", s)

NextCalls == CallParse \/ CallParseTiles

SpecCalls == InitCalls /\ [][NextCalls]_vars

ThreadNotations ==
    {<<"1", "m">>, <<"8", "z">>, <<"1", "1", "1", "1", "1", "m">>,
     <<"(", "1", "1", "1", "m", "<", ")">>, <<"(", "1", "1", "m", ")">>,
     <<"1", "m", "(">>}

\* Two formatter calls reach _state.parser.parse, one in each thread
InitThreads ==
    /\ threads \in [1..2 -> {NewCall("parse", s) : s \in ThreadNotations}]
    /\ NoRendering
    /\ errors = <<>>
    /\ result = NoCall
    /\ notation = <<>>
    /\ content = <<>>
    /\ given_tiles = <<>>
    /\ given_hand = Hand

\* Thread i runs its next step
ThreadStep ==
    \E i \in DOMAIN threads :
        /\ threads[i].pc # "done"
        /\ errors' = ParserStep(errors, threads[i]).errors
        /\ threads' = [threads EXCEPT ![i] = ParserStep(errors, threads[i]).local]
        /\ UNCHANGED <<notation, content, result, given_tiles, given_hand,
                       render_vars>>

SpecThreads == InitThreads /\ [][ThreadStep]_vars

(***************************************************************************)
(* Rendering.  The hands are those the parser returns for a few notations  *)
(* with a meld of every type, with indicators and a draw tile assigned as  *)
(* apply_hand_options assigns them; the tile lists are each catalog tile   *)
(* and a tile outside the catalog, as a caller of render_tiles may build.  *)
(***************************************************************************)
RenderMeldTexts ==
    {<<>>,
     <<"(", "1", "2", "3", "m", "<", ")">>, <<"(", "1", "1", "1", "m", "^", ")">>,
     <<"(", "1", "1", "1", "1", "m", ">", ")">>, <<"[", "1", "1", "1", "1", "m", "]">>,
     <<"[", "0", "5", "5", "5", "p", "]">>,
     <<"(", "1", "1", "1", "+", "1", "m", "<", ")">>,
     <<"(", "1", "1", "1", "+", "1", "m", "^", ")">>,
     <<"(", "1", "1", "1", "+", "1", "m", ">", ")">>,
     <<"(", "1", "2", "3", "+", "4", "p", "<", ")">>,
     <<"(", "1", "2", "3", "+", "4", "p", "^", ")">>,
     <<"(", "1", "2", "3", "+", "4", "p", ">", ")">>,
     <<"(", "1", "2", "3", "+", "4", "p", ")">>}

RenderNotations ==
    {c \o m \o k : c \in {<<>>, <<"1", "z">>, <<"0", "p", "7", "z">>},
                   m \in RenderMeldTexts,
                   k \in {<<>>, <<"[", "2", "2", "2", "2", "s", "]">>}}

RenderTileLists ==
    {<<t>> : t \in CatalogTiles \cup {Tile("z", 8)}}
        \cup {<<Tile("m", 1), Tile("z", 8), Tile("m", 0)>>}

Renderers ==
    {MahjongRenderer(theme, style) :
        theme \in {"light", "dark", "auto", "sepia"}, style \in {"outer", "inner"}}

Titles == {<<>>, <<<<"a", "<", "b">>>>}

InitRender ==
    /\ \/ /\ notation \in RenderNotations
          /\ given_hand \in
                 {[parse(notation).result.value[1] EXCEPT
                       !.dora_indicators = d, !.draw_tile = w] :
                     d \in {<<>>, <<Tile("z", 7)>>},
                     w \in {<<>>, <<Tile("m", 1)>>}}
          /\ given_title \in Titles
          /\ given_tiles = <<>>
       \/ /\ notation = <<>>
          /\ given_hand = Hand
          /\ given_title = <<>>
          /\ given_tiles \in RenderTileLists
    /\ renderer \in Renderers
    /\ svg_id_counter \in {1, 7}
    /\ svg_cache = <<>>
    /\ content = <<>>
    /\ errors = <<>>
    /\ result = NoCall
    /\ threads = <<>>
    /\ blocks = <<>>
    /\ parent = <<>>

\* renderer.render(given_hand, given_title, notation)
Render ==
    /\ result.call = "none"
    /\ LET r == render(renderer, given_hand, given_title,
                       IF notation = <<>> THEN <<>> ELSE <<notation>>,
                       svg_id_counter)
       IN  /\ result' = [call |-> "render", outcome |-> Returned("Html", r.parts)]
           /\ svg_id_counter' = r.counter
           /\ svg_cache' = CacheAfter(svg_cache, GlyphsIn(r.parts))
    /\ given_hand' = HandAfterRender(renderer, given_hand)
    /\ UNCHANGED <<notation, content, errors, given_tiles, threads,
                   renderer, given_title, blocks, parent>>

\* renderer.render_tiles(given_tiles)
RenderTiles ==
    /\ result.call = "none"
    /\ LET r == render_tiles(renderer, given_tiles, svg_id_counter)
       IN  /\ result' = [call |-> "render_tiles",
                         outcome |-> Returned("Html", r.parts)]
           /\ svg_id_counter' = r.counter
           /\ svg_cache' = CacheAfter(svg_cache, GlyphsIn(r.parts))
    /\ given_tiles' = TilesAfterRender(renderer, given_tiles)
    /\ UNCHANGED <<notation, content, errors, given_hand, threads,
                   renderer, given_title, blocks, parent>>

NextRender == Render \/ RenderTiles

SpecRender == InitRender /\ [][NextRender]_vars

(***************************************************************************)
(* The asset cache over the life of a process: the renders of the process  *)
(* call _load_and_process_svg one call after another (lru_cache serialises *)
(* the updates of its table), for a tile with or without red five in a     *)
(* theme with or without assets.  result.key is the key of the last call.  *)
(***************************************************************************)
CacheKeys ==
    {<<TILE_DATABASE[k].asset_name, theme>> :
        k \in {<<"m", 1>>, <<"m", 0>>}, theme \in {"light", "dark", "sepia"}}

InitCache ==
    /\ svg_cache = <<>>
    /\ result = [call |-> "none", outcome |-> NoResult, key |-> <<>>]
    /\ notation = <<>>
    /\ content = <<>>
    /\ errors = <<>>
    /\ given_tiles = <<>>
    /\ given_hand = Hand
    /\ threads = <<>>
    /\ renderer = MahjongRenderer("light", "outer")
    /\ svg_id_counter = 1
    /\ given_title = <<>>
    /\ blocks = <<>>
    /\ parent = <<>>

\* _load_and_process_svg(asset_name, theme), called by _get_svg_content
LoadSvg ==
    \E key \in CacheKeys :
        LET r == cached_load_and_process_svg(svg_cache, key[1], key[2])
        IN  /\ svg_cache' = r.cache
            /\ result' = [call |-> "_load_and_process_svg",
                          outcome |-> IF r.value = <<>>
                                      THEN Raised(<<Fragment("FileNotFoundError",
                                                             <<>>, 0)>>)
                                      ELSE Returned("Svg", r.value),
                          key |-> key]
            /\ UNCHANGED <<notation, content, errors, given_tiles, given_hand,
                           threads, renderer, svg_id_counter, given_title,
                           blocks, parent>>

SpecCache == InitCache /\ [][LoadSvg]_vars

(***************************************************************************)
(* Two renders at once, each by a renderer of its own, in one process.     *)
(* What a render does between two calls of _get_svg_content touches its    *)
(* own locals only, so a step is one call of _get_svg_content: the glyphs  *)
(* the render has to embed (todo) are those of its markup, in the order    *)
(* of the calls, and the step embeds the next one.                         *)
(***************************************************************************)
\* The catalog entry a glyph was made for
InfoOf(glyph) ==
    CHOOSE info \in {TILE_DATABASE[k] : k \in DOMAIN TILE_DATABASE} :
        glyph.name \in {info.asset_name, info.display_name}

\* A render that has not embedded a glyph yet
NewRender(self, method, parts) ==
    [self |-> self, method |-> method, todo |-> GlyphsIn(parts), glyphs |-> <<>>]

ConcurrentRenders ==
    UNION {{NewRender(self, "render_tiles",
                      render_tiles(self, <<Tile("m", 1)>>, 0).parts),
            NewRender(self, "render_tiles",
                      render_tiles(self, <<Tile("m", 1), Tile("m", 0)>>, 0).parts),
            NewRender(self, "render",
                      render(self, parse(<<"[", "1", "1", "1", "1", "m", "]">>).result.value[1],
                             <<>>, <<>>, 0).parts)} :
           self \in {MahjongRenderer("light", "outer"),
                     MahjongRenderer("auto", "inner"),
                     MahjongRenderer("sepia", "outer")}}

InitIds ==
    /\ threads \in [1..2 -> ConcurrentRenders]
    /\ svg_id_counter \in {1, 7}
    /\ svg_cache = <<>>
    /\ renderer = MahjongRenderer("light", "outer")
    /\ given_title = <<>>
    /\ result = NoCall
    /\ notation = <<>>
    /\ content = <<>>
    /\ errors = <<>>
    /\ given_tiles = <<>>
    /\ given_hand = Hand
    /\ blocks = <<>>
    /\ parent = <<>>

\* Thread i runs its next call of _get_svg_content
EmbedGlyph ==
    \E i \in DOMAIN threads :
        /\ Len(threads[i].glyphs) < Len(threads[i].todo)
        /\ LET g == threads[i].todo[Len(threads[i].glyphs) + 1]
               r == _get_svg_content(threads[i].self, InfoOf(g), <<g.theme>>,
                                     svg_id_counter)
           IN  /\ threads' = [threads EXCEPT ![i].glyphs = Append(@, r.svg)]
               /\ svg_id_counter' = r.counter
               /\ svg_cache' = CacheAfter(svg_cache, <<r.svg>>)
        /\ UNCHANGED <<notation, content, errors, result, given_tiles,
                       given_hand, renderer, given_title, blocks, parent>>

SpecIds == InitIds /\ [][EmbedGlyph]_vars

(***************************************************************************)
(* MahjongBlockProcessor                                                   *)
(***************************************************************************)
\* The character U+0060, which a string literal of TLA+ cannot hold
Backtick == "U+0060"

\* The number of U+0060 a line starts with
RECURSIVE LeadingBackticks(_)
LeadingBackticks(line) ==
    IF line # <<>> /\ Head(line) = Backtick
    THEN 1 + LeadingBackticks(Tail(line))
    ELSE 0

\* The string matches \s*$
OnlyWhiteSpace(s) == \A i \in 1..Len(s) : s[i] \in WhiteSpace

\* bool(START_PATTERN.match(line)): ^`{3,}mahjong\s*$
START_PATTERN_match(line) ==
    Let(LeadingBackticks(line), LAMBDA n :
        /\ n >= 3
        /\ Len(line) >= n + 7
        /\ Slice(line, n, n + 7) = <<"m", "a", "h", "j", "o", "n", "g">>
        /\ OnlyWhiteSpace(Slice(line, n + 7, Len(line))))

\* bool(END_PATTERN.match(line)): ^`{3,}\s*$
END_PATTERN_match(line) ==
    Let(LeadingBackticks(line), LAMBDA n :
        /\ n >= 3
        /\ OnlyWhiteSpace(Slice(line, n, Len(line))))

\* MahjongBlockProcessor.test(parent, block)
test(block) == START_PATTERN_match(split(block)[1])

\* "if remaining.strip(): blocks.insert(0, remaining)" with every text after
\* the closing fence dropped
Requeue_Drops(bs, remaining) == bs

\* if remaining.strip(): blocks.insert(0, remaining)
Requeue(bs, remaining) ==
    IF strip(remaining) # <<>> THEN <<remaining>> \o bs ELSE bs

\* One "for i, line in enumerate(...)" loop of run from the line at offset i
\* on: [fence_closed, content_lines, remaining]
RECURSIVE ScanLines(_, _, _)
ScanLines(lines, i, content_lines) ==
    IF i >= Len(lines)
    THEN [fence_closed |-> FALSE, content_lines |-> content_lines,
          remaining |-> <<>>]
    ELSE IF END_PATTERN_match(lines[i + 1])
    THEN [fence_closed |-> TRUE, content_lines |-> content_lines,
          remaining |-> JoinLines(Slice(lines, i + 1, Len(lines)))]
    ELSE ScanLines(lines, i + 1, Append(content_lines, lines[i + 1]))

\* The "while blocks" loop of run: [fence_closed, content_lines, blocks]
RECURSIVE ScanBlocks(_, _)
ScanBlocks(bs, content_lines) ==
    IF bs = <<>>
    THEN [fence_closed |-> FALSE, content_lines |-> content_lines,
          blocks |-> bs]
    ELSE Let(ScanLines(split(Head(bs)), 0, content_lines), LAMBDA s :
             IF s.fence_closed
             THEN [fence_closed |-> TRUE, content_lines |-> s.content_lines,
                   blocks |-> Requeue(Tail(bs), s.remaining)]
             ELSE ScanBlocks(Tail(bs), s.content_lines))

\* The part of run that reads the fence: the first block from its second
\* line, then the following blocks: [fence_closed, content_lines, blocks]
ReadFence(bs) ==
    Let(ScanLines(split(Head(bs)), 1, <<>>), LAMBDA s :
        IF s.fence_closed
        THEN [fence_closed |-> TRUE, content_lines |-> s.content_lines,
              blocks |-> Requeue(Tail(bs), s.remaining)]
        ELSE ScanBlocks(Tail(bs), s.content_lines))

\* An element appended to the parent: a div, its class, the text of its
\* strong child, the tail of that child, and its own text, for which the
\* markup that htmlStash stored under the placeholder stands
Element(class, strong, tail, text) ==
    [tag |-> "div", class |-> class, strong |-> strong, tail |-> tail,
     text |-> text]

\* _render_error(parent, message): the element it appends
_render_error(message) ==
    Element("mahjong-error", "Mahjong Error: ", message, <<>>)

\* options.get("title")
GetTitle(options) ==
    IF KEY_TITLE \in DOMAIN options THEN <<options[KEY_TITLE]>> ELSE <<>>

\* The part of run after the fence was read: parse_hand_block, then the
\* error element or the rendered hand: [element, errors, counter, parts]
RenderBlock(self, c, parser_errors, counter) ==
    Let(parse_hand_block(c, parser_errors), LAMBDA b :
        IF b.result.kind = "ParseError"
        THEN [element |-> _render_error(b.result.message),
              errors |-> b.errors, counter |-> counter, parts |-> <<>>]
        ELSE Let(render(self, b.result.value[1].hand,
                        GetTitle(b.result.value[1].options),
                        <<b.result.value[1].notation>>, counter),
                 LAMBDA r :
                     [element |-> Element("", "", <<>>, r.parts),
                      errors |-> b.errors, counter |-> r.counter,
                      parts |-> r.parts]))

\* MahjongBlockProcessor.run(parent, blocks): [blocks, content, element,
\* errors, counter, parts], content being <<>> when parse_hand_block was not
\* called and <<the content>> when it was
run(self, bs, parser_errors, counter) ==
    Let(ReadFence(bs), LAMBDA f :
        IF ~f.fence_closed
        THEN [blocks |-> f.blocks, content |-> <<>>,
              element |-> _render_error(
                              <<Fragment("Unclosed mahjong fence", <<>>, 0)>>),
              errors |-> parser_errors, counter |-> counter, parts |-> <<>>]
        ELSE Let(RenderBlock(self, strip(JoinLines(f.content_lines)),
                             parser_errors, counter),
                 LAMBDA r :
                     [blocks |-> f.blocks,
                      content |-> <<strip(JoinLines(f.content_lines))>>,
                      element |-> r.element, errors |-> r.errors,
                      counter |-> r.counter, parts |-> r.parts]))

\* The opening fence line and a closing fence line
OpenLine == <<Backtick, Backtick, Backtick,
             "m", "a", "h", "j", "o", "n", "g">>

FenceLine == <<Backtick, Backtick, Backtick>>

\* The lines that follow the opening line in the block that opens a fence
OpeningBlockLines ==
    {<<>>,
     <<<<"1", "m">>>>,
     <<<<"1", "m">>, FenceLine>>,
     <<<<"1", "m">>, FenceLine, <<"x">>>>,
     <<<<"1", "m">>, FenceLine, <<" ">>>>,
     <<FenceLine>>,
     <<<<"8", "z">>, <<Backtick>> \o FenceLine>>,
     <<KEY_TITLE \o <<":", " ", "x">>, <<"1", "m">>, FenceLine, FenceLine>>,
     <<<<"1", "m">>, FenceLine, OpenLine, <<"1", "z">>, FenceLine>>,
     <<<<"1", "m">>, FenceLine, <<Backtick>> \o OpenLine \o <<" ">>>>}

OpeningBlocks == {JoinLines(<<OpenLine>> \o ls) : ls \in OpeningBlockLines}

\* The blocks that may follow the opening block
FollowingBlocks ==
    {JoinLines(ls) :
        ls \in {<<<<"1", "z">>>>,
                <<FenceLine>>,
                <<<<"1", "z">>, FenceLine, <<"x">>>>,
                <<FenceLine \o <<" ">>, <<"x">>, <<"y">>>>,
                <<<<"x">>>>}}

MaxFollowing == 2

\* The block lists handed to run: the block that test accepted first
BlockLists ==
    {<<b>> \o bs : b \in OpeningBlocks,
                   bs \in Runs(FollowingBlocks, 0, MaxFollowing)}

InitRun ==
    /\ blocks \in BlockLists
    /\ parent = <<>>
    /\ renderer \in {MahjongRenderer("auto", "outer"),
                     MahjongRenderer("dark", "inner")}
    /\ errors \in {<<>>, StaleErrors}
    /\ svg_id_counter = 1
    /\ svg_cache = <<>>
    /\ given_title = <<>>
    /\ notation = <<>>
    /\ content = <<>>
    /\ result = NoCall
    /\ given_tiles = <<>>
    /\ given_hand = Hand
    /\ threads = <<>>

\* The block parser calls run(parent, blocks) when test accepts blocks[0]
Run ==
    /\ blocks # <<>>
    /\ test(blocks[1])
    /\ LET r == run(renderer, blocks, errors, svg_id_counter)
       IN  /\ blocks' = r.blocks
           /\ parent' = Append(parent, r.element)
           /\ content' = IF r.content = <<>> THEN content ELSE r.content[1]
           /\ errors' = r.errors
           /\ svg_id_counter' = r.counter
           /\ svg_cache' = CacheAfter(svg_cache, GlyphsIn(r.parts))
           /\ result' = [call |-> "run", outcome |-> Returned("bool", <<TRUE>>)]
    /\ UNCHANGED <<notation, given_tiles, given_hand, threads, renderer,
                   given_title>>

SpecRun == InitRun /\ [][Run]_vars

(***************************************************************************)
(* Properties.  What they need beyond the program: what a call gave, the   *)
(* catalog and the grammar written down directly, and the entries of a     *)
(* failure message.                                                        *)
(***************************************************************************)
ParseReturned == result.call = "parse" /\ result.outcome.kind = "Hand"

ReturnedHand == result.outcome.value[1]

\* The melds written in the notation, as MELD_PATTERN finds them
WrittenMelds == MELD_PATTERN_finditer(strip(notation), 0)

\* The (suit, number) pairs that exist: 0-9 of m, p, s and 1-7 of z
InCatalog(suit, number) ==
    \/ suit \in {"m", "p", "s"} /\ number \in 0..9
    \/ suit = "z" /\ number \in 1..7

Fillers == {" ", "_", "|"}

Cleaned(s) == SelectSeq(s, LAMBDA c : c \notin Fillers)

Occurrences(tiles, suit, number) ==
    Cardinality({i \in 1..Len(tiles) :
                    tiles[i].suit = suit /\ tiles[i].number = number})

\* The entries of a joined message: what lies between the separators
RECURSIVE SplitMessage(_, _)
SplitMessage(msg, cur) ==
    IF msg = <<>> THEN <<cur>>
    ELSE IF Head(msg) = Separator
         THEN <<cur>> \o SplitMessage(Tail(msg), <<>>)
         ELSE SplitMessage(Tail(msg), Append(cur, Head(msg)))

\* The kinds of the errors recorded
ErrorKinds == {errors[i][1].kind : i \in 1..Len(errors)}

\* What the three passes of parse record on s, each pass taken alone
PassErrors(pm, pt) ==
    pm.errors \o pt.errors
        \o _validate_tile_counts(
               [Hand EXCEPT !.melds = pm.melds, !.closed_tiles = pt.tiles], <<>>)

ErrorsOfPasses(s) ==
    PassErrors(_parse_melds(strip(s), <<>>),
               _parse_tiles(strip(MELD_PATTERN_sub(strip(s), 0)), <<>>))

\* C1: parse returns a Hand only when the call recorded no error of any
\* kind (meld, closed tiles, tile count); otherwise it raises one
\* ParseError whose message is every recorded error joined by "; ", and
\* returns no Hand.
C1_ParseAllOrNothing ==
    result.call = "parse" =>
        /\ errors = ErrorsOfPasses(notation)
        /\ result.outcome.kind = (IF errors = <<>> THEN "Hand" ELSE "ParseError")
        /\ result.outcome.kind = "Hand" =>
               Len(result.outcome.value) = 1 /\ result.outcome.message = <<>>
        /\ result.outcome.kind = "ParseError" =>
               /\ result.outcome.value = <<>>
               /\ SplitMessage(result.outcome.message, <<>>) = errors

\* A failure that carries a meld error, a closed-tile error and a count error
C1_Witness ==
    /\ result.call = "parse"
    /\ result.outcome.kind = "ParseError"
    /\ {"Invalid meld size: ", "Invalid tile notation: ",
        "Invalid tile count: "} \subseteq ErrorKinds

\* The closed tiles and the tiles of the accepted melds of s
AcceptedTiles(s) ==
    _parse_tiles(strip(MELD_PATTERN_sub(strip(s), 0)), <<>>).tiles
        \o MeldTiles(_parse_melds(strip(s), <<>>).melds)

OverRepresented(tiles) ==
    {<<tiles[i].suit, tiles[i].number>> :
        i \in {j \in 1..Len(tiles) :
                  Occurrences(tiles, tiles[j].suit, tiles[j].number) >= 5}}

CountEntries(msg) ==
    {i \in 1..Len(msg) : msg[i].kind = "Invalid tile count: "}

\* msg has one count entry per over-represented pair of tiles, naming the
\* pair's notation and its count, and no other count entry
CountsReported(tiles, msg) ==
    /\ \A k \in OverRepresented(tiles) :
           Cardinality({i \in CountEntries(msg) :
                           /\ msg[i].text = <<str(k[2]), k[1]>>
                           /\ msg[i].count = Occurrences(tiles, k[1], k[2])}) = 1
    /\ Cardinality(CountEntries(msg)) = Cardinality(OverRepresented(tiles))

\* C2: when some (suit, number) pair occurs 5 or more times across the
\* closed tiles and the accepted melds, parse fails and its message has one
\* entry per over-represented pair, naming the tile and its exact count;
\* 0 and 5 are different pairs, so four 5s and one 0 are accepted.
C2_FifthCopyRejected ==
    result.call = "parse" =>
        /\ OverRepresented(AcceptedTiles(notation)) # {} =>
               result.outcome.kind = "ParseError"
        /\ CountsReported(AcceptedTiles(notation), result.outcome.message)
        /\ notation = <<"5", "5", "5", "5", "0", "m">> =>
               result.outcome.kind = "Hand"

\* A failure that names two over-represented pairs
C2_Witness ==
    /\ result.call = "parse"
    /\ result.outcome.kind = "ParseError"
    /\ Cardinality(CountEntries(result.outcome.message)) = 2

AtMostFour(tiles) ==
    \A i \in 1..Len(tiles) :
        Occurrences(tiles, tiles[i].suit, tiles[i].number) <= 4

\* C3: in every Hand that reaches the renderer, from parse alone or from
\* parse_hand_block after dora, uradora and draw are applied, each
\* (suit, number) pair occurs at most 4 times across all_tiles.
C3_AtMostFourOfEachTile ==
    /\ ParseReturned => AtMostFour(all_tiles(ReturnedHand))
    /\ result.call = "parse_hand_block" /\ result.outcome.kind = "HandBlock" =>
           AtMostFour(all_tiles(result.outcome.value[1].hand))

\* c is one or more tile groups back to back: digits then a suit, with
\* nothing before, between or after
IsTileGroups(c) ==
    /\ c # <<>>
    /\ c[1] \in DigitChars
    /\ c[Len(c)] \in SuitChars
    /\ \A i \in 1..Len(c) :
           /\ c[i] \in DigitChars \cup SuitChars
           /\ i < Len(c) /\ c[i] \in SuitChars => c[i + 1] \in DigitChars

\* The digit at i is followed, after digits only, by a suit
HasSuit(c, i) ==
    \E j \in i..Len(c) :
        c[j] \in SuitChars /\ \A k \in i..(j - 1) : c[k] \in DigitChars

\* That suit
SuitAfter(c, i) ==
    c[CHOOSE j \in i..Len(c) :
          c[j] \in SuitChars /\ \A k \in i..(j - 1) : c[k] \in DigitChars]

\* The positions of c that satisfy P, in order
Positions(c, P(_)) == SelectSeq([i \in 1..Len(c) |-> i], P)

TilesAt(c, ps) ==
    [n \in 1..Len(ps) |-> Tile(SuitAfter(c, ps[n]), int(c[ps[n]]))]

\* One Tile per digit of c, in order, each with the suit of its group
ExpectedTiles(c) ==
    TilesAt(c, Positions(c, LAMBDA i : c[i] \in DigitChars /\ HasSuit(c, i)))

AllInCatalog(c) ==
    \A i \in 1..Len(c) :
        c[i] \in DigitChars /\ HasSuit(c, i) =>
            InCatalog(SuitAfter(c, i), int(c[i]))

NotationErrors ==
    {i \in 1..Len(errors) : errors[i][1].kind = "Invalid tile notation: "}

\* C4: parse_tiles succeeds exactly when the input without its fillers
\* (space, underscore, pipe) is empty or is tile groups back to back with
\* every pair in the catalog; it then returns one Tile per digit in input
\* order with its group's suit.  A gap, a leftover or no match at all on a
\* non-empty cleaned input gives exactly one "Invalid tile notation" error.
C4_parse_tilesAcceptsTileGroups ==
    result.call = "parse_tiles" =>
        /\ result.outcome.kind \in {"Tiles", "ParseError"}
        /\ result.outcome.kind = "Tiles" <=>
               \/ Cleaned(notation) = <<>>
               \/ IsTileGroups(Cleaned(notation)) /\ AllInCatalog(Cleaned(notation))
        /\ result.outcome.kind = "Tiles" =>
               result.outcome.value = ExpectedTiles(Cleaned(notation))
        /\ Cardinality(NotationErrors) =
               (IF Cleaned(notation) = <<>> \/ IsTileGroups(Cleaned(notation))
                THEN 0 ELSE 1)

\* Two or more tiles returned for an input that had a filler in it
C4_Witness ==
    /\ result.call = "parse_tiles"
    /\ result.outcome.kind = "Tiles"
    /\ Len(result.outcome.value) >= 2
    /\ Len(Cleaned(notation)) < Len(notation)

TextsAt(c, ps) == [n \in 1..Len(ps) |-> <<c[ps[n]], SuitAfter(c, ps[n])>>]

\* The notation of every digit of c whose pair is not in the catalog
InvalidInText(c) ==
    TextsAt(c, Positions(c, LAMBDA i :
        /\ c[i] \in DigitChars
        /\ HasSuit(c, i)
        /\ ~InCatalog(SuitAfter(c, i), int(c[i]))))

\* The same over the digits written inside the melds ms
RECURSIVE InvalidInMelds(_)
InvalidInMelds(ms) ==
    IF ms = <<>> THEN <<>>
    ELSE InvalidInText(Head(ms).group2 \o Head(ms).group4 \o <<Head(ms).group5>>)
             \o InvalidInMelds(Tail(ms))

\* The digits with no catalog entry that the call was given
InvalidDigits ==
    IF result.call = "parse"
    THEN InvalidInMelds(WrittenMelds)
             \o InvalidInText(Cleaned(strip(MELD_PATTERN_sub(strip(notation), 0))))
    ELSE InvalidInText(Cleaned(notation))

TextsOf(fs) == [i \in 1..Len(fs) |-> fs[i].text]

\* The "Invalid tile" entries of a message, in order
InvalidTileEntries(msg) ==
    TextsOf(SelectSeq(msg, LAMBDA f : f.kind = "Invalid tile: "))

\* C5: within one parse or parse_tiles call every digit whose pair has no
\* catalog entry is reported as its own "Invalid tile" error and does not
\* stop the remaining digits and groups; all these errors are in the
\* aggregate failure, for the digits of the closed part and for the digits
\* written inside a meld alike.
C5_EveryInvalidDigitReported ==
    result.call \in {"parse", "parse_tiles"} =>
        /\ InvalidTileEntries(Join(errors)) = InvalidDigits
        /\ InvalidTileEntries(result.outcome.message) = InvalidDigits

BracketsAgree(m) ==
    \/ m.group1 = "[" /\ m.group7 = "]"
    \/ m.group1 = "(" /\ m.group7 = ")"

SquareBrackets(m) == m.group1 = "[" /\ m.group7 = "]"

\* A "+" with no digit after it
DanglingPlus(m) == m.group3 # <<>> /\ m.group4 = <<>>

\* How many tiles the digits of the meld give: those with a catalog entry
TileCount(m) ==
    Len(SelectSeq(m.group2 \o m.group4,
                  LAMBDA d : InCatalog(m.group5, int(d))))

\* The types the classification order allows a meld of n tiles
TypesInOrder(m, n) ==
    IF m.group3 # <<>> /\ n = 4 THEN {"kan_added"}
    ELSE IF SquareBrackets(m) /\ n = 4 THEN {"kan_closed"}
    ELSE IF n = 4 THEN {"kan_open"}
    ELSE IF n = 3 THEN {"chi", "pon"}
    ELSE {}

\* The melds of a returned Hand are the melds written, each with 3 tiles
\* as chi or pon or 4 tiles as a kan, typed in the classification order
ReturnedMeldsClassified ==
    ParseReturned =>
        /\ Len(ReturnedHand.melds) = Len(WrittenMelds)
        /\ \A i \in 1..Len(ReturnedHand.melds) :
               /\ ReturnedHand.melds[i].meld_type
                      \in TypesInOrder(WrittenMelds[i],
                                       Len(ReturnedHand.melds[i].tiles))
               /\ Len(ReturnedHand.melds[i].tiles) = TileCount(WrittenMelds[i])
               /\ Len(ReturnedHand.melds[i].tiles) =
                      (IF ReturnedHand.melds[i].meld_type \in {"chi", "pon"}
                       THEN 3 ELSE 4)

\* The tile counts, other than 3 and 4, of the well-formed melds of ms
RECURSIVE OtherSizes(_)
OtherSizes(ms) ==
    IF ms = <<>> THEN <<>>
    ELSE (IF BracketsAgree(Head(ms)) /\ ~DanglingPlus(Head(ms))
             /\ TileCount(Head(ms)) \notin {3, 4}
          THEN <<TileCount(Head(ms))>> ELSE <<>>)
         \o OtherSizes(Tail(ms))

CountsOf(fs) == [i \in 1..Len(fs) |-> fs[i].count]

\* The "Invalid meld size" entries of a message, in order
MeldSizeEntries(msg) ==
    CountsOf(SelectSeq(msg, LAMBDA f : f.kind = "Invalid meld size: "))

\* Every well-formed meld with a tile count other than 3 or 4 has its
\* "Invalid meld size" error
OtherSizesReported ==
    result.call = "parse" =>
        MeldSizeEntries(result.outcome.message) = OtherSizes(WrittenMelds)

\* C6: every meld of a Hand returned by parse has 3 tiles when chi or pon
\* and 4 when a kan, typed in the order: 4 tiles with "+" is kan_added,
\* else 4 tiles in square brackets is kan_closed, else 4 tiles is kan_open,
\* 3 tiles is chi or pon; a meld with any other tile count is dropped with
\* an "Invalid meld size" error.
C6_MeldsClassifiedBySize == ReturnedMeldsClassified /\ OtherSizesReported

Normal(number) == IF number = 0 THEN 5 ELSE number

\* The numbers of the three tiles, 0 read as 5, are three in a row, in a
\* numbered suit
IsRun(tiles) ==
    /\ tiles[1].suit \in {"m", "p", "s"}
    /\ \E a \in 1..7 :
           {Normal(tiles[i].number) : i \in 1..3} = {a, a + 1, a + 2}

\* C7: a 3-tile meld is chi exactly when its suit is m, p or s and its
\* numbers, 0 counted as 5, are three consecutive integers once sorted,
\* whatever the written order; otherwise it is pon.
C7_ChiIffRun ==
    ParseReturned =>
        \A i \in 1..Len(ReturnedHand.melds) :
            Len(ReturnedHand.melds[i].tiles) = 3 =>
                ReturnedHand.melds[i].meld_type =
                    (IF IsRun(ReturnedHand.melds[i].tiles) THEN "chi" ELSE "pon")

\* A chi written out of order with a red five in it
C7_Witness ==
    /\ ParseReturned
    /\ \E i \in 1..Len(ReturnedHand.melds) :
           /\ ReturnedHand.melds[i].meld_type = "chi"
           /\ ReturnedHand.melds[i].tiles[1].number
                  > ReturnedHand.melds[i].tiles[2].number
           /\ \E j \in 1..3 : ReturnedHand.melds[i].tiles[j].number = 0

\* No kan_closed meld of a returned Hand has a source; none is open
ClosedKanIsSelf ==
    ParseReturned =>
        \A i \in 1..Len(ReturnedHand.melds) :
            ReturnedHand.melds[i].meld_type = "kan_closed" =>
                /\ ReturnedHand.melds[i].source = SELF
                /\ ~is_open(ReturnedHand.melds[i])

\* A square-bracket meld written with a source marker fails the parse with
\* its "Closed kan cannot have source marker" error
SourcedClosedKanRejected ==
    result.call = "parse" =>
        \A i \in 1..Len(WrittenMelds) :
            SquareBrackets(WrittenMelds[i]) /\ WrittenMelds[i].group6 # <<>> =>
                /\ result.outcome.kind = "ParseError"
                /\ \E j \in 1..Len(result.outcome.message) :
                       /\ result.outcome.message[j].kind =
                              "Closed kan cannot have source marker: "
                       /\ result.outcome.message[j].text = WrittenMelds[i].group0

\* C8: no Hand returned by parse has a kan_closed meld with source left,
\* across or right: a square-bracket meld written with a source marker
\* makes parse fail with a "Closed kan cannot have source marker" error,
\* and a kan_closed meld has source self and is not open.
C8_ClosedKanHasNoSource == ClosedKanIsSelf /\ SourcedClosedKanRejected

\* The 0-based indexes of the tiles of meld that are rotated / added
RotatedAt(meld) ==
    {i - 1 : i \in {j \in 1..Len(meld.tiles) : meld.tiles[j].is_rotated}}

AddedAt(meld) ==
    {i - 1 : i \in {j \in 1..Len(meld.tiles) : meld.tiles[j].is_added}}

\* Where the source puts the rotated tile
SourceIndex(meld) ==
    IF meld.source = LEFT THEN 0
    ELSE IF meld.source = ACROSS THEN 1
    ELSE IF meld.meld_type = "kan_open" THEN 3
    ELSE 2

\* The original statement of C9: every meld of a returned Hand whose source
\* is not self has exactly one rotated tile, at index 0 for left, 1 for
\* across, 3 for right on kan_open and 2 for right otherwise; a meld with
\* source self has none.
C9_ExactlyOneRotatedTile ==
    ParseReturned =>
        \A i \in 1..Len(ReturnedHand.melds) :
            RotatedAt(ReturnedHand.melds[i]) =
                (IF ReturnedHand.melds[i].source = SELF THEN {}
                 ELSE {SourceIndex(ReturnedHand.melds[i])})

\* C9: every meld of a returned Hand whose source is not self has its
\* rotated tile at index 0 for left, 1 for across, 3 for right on kan_open
\* and 2 for right otherwise; it is the only rotated tile of the meld,
\* except that kan_added has its fourth tile rotated as well; a meld with
\* source self has no rotated tile.
C9_RotatedTileFollowsSource ==
    ParseReturned =>
        \A i \in 1..Len(ReturnedHand.melds) :
            RotatedAt(ReturnedHand.melds[i]) =
                (IF ReturnedHand.melds[i].source = SELF THEN {}
                 ELSE IF ReturnedHand.melds[i].meld_type = "kan_added"
                      THEN {SourceIndex(ReturnedHand.melds[i]), 3}
                      ELSE {SourceIndex(ReturnedHand.melds[i])})

\* An open kan called from the right: its last tile is the rotated one
C9_Witness ==
    /\ ParseReturned
    /\ \E i \in 1..Len(ReturnedHand.melds) :
           /\ ReturnedHand.melds[i].meld_type = "kan_open"
           /\ ReturnedHand.melds[i].source = RIGHT
           /\ RotatedAt(ReturnedHand.melds[i]) = {3}

\* C10: in a kan_added meld with source left, across or right the rotated
\* tiles are exactly the base tile (index 0, 1, 2) and the tile at index 3,
\* the only added tile is the one at index 3, and the other two tiles carry
\* neither flag.
C10_AddedKanFlags ==
    ParseReturned =>
        \A i \in 1..Len(ReturnedHand.melds) :
            /\ ReturnedHand.melds[i].meld_type = "kan_added"
            /\ ReturnedHand.melds[i].source # SELF
            => /\ Len(ReturnedHand.melds[i].tiles) = 4
               /\ RotatedAt(ReturnedHand.melds[i]) =
                      {CASE ReturnedHand.melds[i].source = LEFT -> 0
                         [] ReturnedHand.melds[i].source = ACROSS -> 1
                         [] ReturnedHand.melds[i].source = RIGHT -> 2, 3}
               /\ AddedAt(ReturnedHand.melds[i]) = {3}

\* An added kan called from the right
C10_Witness ==
    /\ ParseReturned
    /\ \E i \in 1..Len(ReturnedHand.melds) :
           /\ ReturnedHand.melds[i].meld_type = "kan_added"
           /\ ReturnedHand.melds[i].source = RIGHT

\* C11: for every sequence of catalog tiles, parse_tiles of the tiles'
\* notations written one after another succeeds and returns a sequence of
\* the same length with the same (suit, number) at every position.
C11_NotationRoundTrip ==
    result.call = "round_trip" =>
        /\ result.outcome.kind = "Tiles"
        /\ Len(result.outcome.value) = Len(given_tiles)
        /\ \A i \in 1..Len(given_tiles) :
               /\ result.outcome.value[i].suit = given_tiles[i].suit
               /\ result.outcome.value[i].number = given_tiles[i].number

\* Two tiles of different suits, a red five among them, read back
C11_Witness ==
    /\ result.call = "round_trip"
    /\ result.outcome.kind = "Tiles"
    /\ Len(given_tiles) = 2
    /\ given_tiles[1].suit # given_tiles[2].suit
    /\ given_tiles[1].number = 0

\* The tiles of the melds, last meld last
RECURSIVE TilesOfMelds(_)
TilesOfMelds(melds) ==
    IF melds = <<>> THEN <<>>
    ELSE TilesOfMelds(SubSeq(melds, 1, Len(melds) - 1))
             \o melds[Len(melds)].tiles

\* C12: for every Hand, with or without melds and draw tile,
\* total_tile_count is the length of all_tiles, and all_tiles is the closed
\* tiles, then the tiles of each meld in meld order, then the draw tile;
\* the dora and uradora indicators are never included.
C12_TileCountIsLenAllTiles ==
    result.call = "properties" =>
        /\ result.outcome.value[1].total_tile_count
               = Len(result.outcome.value[1].all_tiles)
        /\ result.outcome.value[1].all_tiles
               = given_hand.closed_tiles \o TilesOfMelds(given_hand.melds)
                     \o given_hand.draw_tile

\* A Hand with two melds, a draw tile and both kinds of indicators
C12_Witness ==
    /\ result.call = "properties"
    /\ Len(given_hand.melds) = 2
    /\ given_hand.melds[1] # given_hand.melds[2]
    /\ given_hand.draw_tile # <<>>
    /\ given_hand.dora_indicators # <<>>
    /\ given_hand.uradora_indicators # <<>>
    /\ given_hand.closed_tiles # <<>>

\* What the call alone on a fresh parser gives
OutcomeAlone(method, s) ==
    IF method = "parse" THEN parse(s).result ELSE parse_tiles(s).result

\* C13: after any sequence of parse and parse_tiles calls on one parser,
\* failed calls included, the outcome of the next call depends only on its
\* argument: it is the outcome of that call on a fresh parser, and the
\* errors of an earlier call are neither in its failure nor its cause.
C13_OutcomeDependsOnArgumentOnly ==
    result.call \in {"parse", "parse_tiles"} =>
        /\ result.outcome = OutcomeAlone(result.call, notation)
        /\ errors = (IF result.call = "parse" THEN parse(notation).errors
                     ELSE parse_tiles(notation).errors)

\* A call that succeeds right after a call that failed
C13_Witness ==
    /\ result.call \in {"parse", "parse_tiles"}
    /\ result.after = "ParseError"
    /\ result.outcome.kind \in {"Hand", "Tiles"}

\* C14: two parse calls on independent inputs that run concurrently on the
\* shared parser each give the outcome they give alone, under every
\* interleaving of their steps.
C14_ConcurrentCallsAsAlone ==
    \A i \in DOMAIN threads :
        threads[i].pc = "done" =>
            threads[i].outcome = OutcomeAlone("parse", threads[i].notation)

\* The option lines of the block that carry a tile sub-notation
SubKeys(options) == DOMAIN options \cap {KEY_DORA, KEY_URADORA, KEY_DRAW}

\* The block read by the last parse_hand_block call
BlockRead == parse_block_content(content)

\* parse_hand_block got past the hand notation of the block
HandNotationAccepted ==
    /\ result.call = "parse_hand_block"
    /\ BlockRead.notation # <<>>
    /\ parse(BlockRead.notation).result.kind = "Hand"

\* The tiles parse_tiles gives for the sub-notation of key; <<>> without one
TilesOfOption(options, key) ==
    IF key \in DOMAIN options /\ parse_tiles(options[key]).result.kind = "Tiles"
    THEN parse_tiles(options[key]).result.value
    ELSE <<>>

\* The first element of a list as an Optional
FirstOf(ts) == IF ts = <<>> THEN <<>> ELSE <<ts[1]>>

\* C15: a dora, uradora or draw sub-notation is handled as parse_tiles
\* handles it: the block is accepted exactly when parse_tiles accepts every
\* sub-notation, the indicators are the list parse_tiles returns and the
\* draw tile is its first tile; no meld is recognised in a sub-notation and
\* no count ceiling applies to it.
C15_SubNotationsAsParseTiles ==
    HandNotationAccepted =>
        /\ result.outcome.kind = "HandBlock" <=>
               \A key \in SubKeys(BlockRead.options) :
                   parse_tiles(BlockRead.options[key]).result.kind = "Tiles"
        /\ result.outcome.kind = "HandBlock" =>
               /\ result.outcome.value[1].hand.dora_indicators
                      = TilesOfOption(BlockRead.options, KEY_DORA)
               /\ result.outcome.value[1].hand.uradora_indicators
                      = TilesOfOption(BlockRead.options, KEY_URADORA)
               /\ result.outcome.value[1].hand.draw_tile
                      = FirstOf(TilesOfOption(BlockRead.options, KEY_DRAW))

\* The sub-notation of key is given and the parser rejects it
OptionFails(options, key) ==
    key \in DOMAIN options /\ parse(options[key]).result.kind = "ParseError"

OptionPrefix(key) ==
    CASE key = KEY_DORA -> "Invalid dora notation: "
      [] key = KEY_URADORA -> "Invalid uradora notation: "
      [] key = KEY_DRAW -> "Invalid draw notation: "

\* One error for each failing option, in the order dora, uradora, draw:
\* the prefix followed by the parser's message
RECURSIVE OptionErrors(_, _)
OptionErrors(options, keys) ==
    IF keys = <<>> THEN <<>>
    ELSE (IF OptionFails(options, Head(keys))
          THEN <<<<Fragment(OptionPrefix(Head(keys)), <<>>, 0)>>
                     \o parse(options[Head(keys)]).result.message>>
          ELSE <<>>) \o OptionErrors(options, Tail(keys))

OptionKeys == <<KEY_DORA, KEY_URADORA, KEY_DRAW>>

\* The field of the hand that the option key sets
FieldOf(hand, key) ==
    CASE key = KEY_DORA -> hand.dora_indicators
      [] key = KEY_URADORA -> hand.uradora_indicators
      [] key = KEY_DRAW -> hand.draw_tile

\* What an accepted sub-notation puts in the field
FieldFrom(hand, key, sub_hand) ==
    CASE key = KEY_DORA -> all_tiles(sub_hand)
      [] key = KEY_URADORA -> all_tiles(sub_hand)
      [] key = KEY_DRAW -> IF sub_hand.closed_tiles = <<>> THEN hand.draw_tile
                           ELSE <<sub_hand.closed_tiles[1]>>

\* C16: when the sub-notation of a dora, uradora or draw option fails to
\* parse, apply_hand_options leaves that field of the hand as it was,
\* returns one error for it, prefixed with "Invalid <option> notation", and
\* still applies the other options; parse_hand_block then raises one
\* ParseError that joins all the option errors.
C16_FailingOptionReported ==
    /\ result.call = "apply_hand_options" =>
           /\ result.outcome.value[1].errors
                  = OptionErrors(BlockRead.options, OptionKeys)
           /\ \A key \in SubKeys(BlockRead.options) :
                  FieldOf(result.outcome.value[1].hand, key)
                      = IF OptionFails(BlockRead.options, key)
                        THEN FieldOf(given_hand, key)
                        ELSE FieldFrom(given_hand, key,
                                 parse(BlockRead.options[key]).result.value[1])
    /\ (HandNotationAccepted
           /\ \E key \in SubKeys(BlockRead.options) :
                  OptionFails(BlockRead.options, key)) =>
           result.outcome
               = Raised(Join(OptionErrors(BlockRead.options, OptionKeys)))

\* Two options fail and a third is applied to a hand that had all three
\* fields set
C16_Witness ==
    /\ result.call = "apply_hand_options"
    /\ given_hand.dora_indicators # <<>>
    /\ OptionFails(BlockRead.options, KEY_DORA)
    /\ OptionFails(BlockRead.options, KEY_URADORA)
    /\ KEY_DRAW \in DOMAIN BlockRead.options
    /\ ~OptionFails(BlockRead.options, KEY_DRAW)
    /\ result.outcome.value[1].hand.draw_tile # given_hand.draw_tile

\* The line has a ":" and its key is none of hand, title, dora, uradora, draw
UnrecognizedKeyLine(raw) ==
    /\ find(strip(raw), ":", 0) < Len(strip(raw))
    /\ lower(strip(Slice(strip(raw), 0, find(strip(raw), ":", 0))))
           \notin {KEY_HAND, KEY_TITLE, KEY_DORA, KEY_URADORA, KEY_DRAW}

\* The block without its lines of unrecognized key
WithoutUnrecognized(c) ==
    JoinLines(SelectSeq(split(c), LAMBDA raw : ~UnrecognizedKeyLine(raw)))

\* C17: in parse_block_content a "key: value" line whose key is none of
\* hand, title, dora, uradora, draw is ignored wherever it stands: the
\* notation and the options returned are those of the block without it.
C17_UnrecognizedKeyIgnored ==
    result.call = "parse_block_content" =>
        result.outcome.value[1] = parse_block_content(WithoutUnrecognized(content))

\* The line is "hand: value" with a value that is not blank
HandLineWithValue(raw) ==
    /\ find(strip(raw), ":", 0) < Len(strip(raw))
    /\ lower(strip(Slice(strip(raw), 0, find(strip(raw), ":", 0)))) = KEY_HAND
    /\ strip(Slice(strip(raw), find(strip(raw), ":", 0) + 1, Len(strip(raw)))) # <<>>

\* The line is not blank and has no ":"
BareLine(raw) ==
    strip(raw) # <<>> /\ find(strip(raw), ":", 0) >= Len(strip(raw))

\* The block supplies no hand notation
NoHandNotation(c) ==
    \A i \in DOMAIN split(c) :
        ~HandLineWithValue(split(c)[i]) /\ ~BareLine(split(c)[i])

\* C18: parse_hand_block raises ParseError "No hand notation provided",
\* without invoking the parser (its errors stay as they were), whenever the
\* block supplies no hand notation: no hand key with a value that is not
\* blank and no bare notation line.
C18_NoHandNotationRaises ==
    [][(result'.call = "parse_hand_block" /\ result.call = "none"
            /\ NoHandNotation(content))
        => /\ result'.outcome
                  = Raised(<<Fragment("No hand notation provided", <<>>, 0)>>)
           /\ errors' = errors]_vars

\* The part of C18 on blocks without a line of unrecognized key
C18_WithoutUnrecognizedKeys ==
    [][(result'.call = "parse_hand_block" /\ result.call = "none"
            /\ NoHandNotation(content)
            /\ \A i \in DOMAIN split(content) :
                   ~UnrecognizedKeyLine(split(content)[i]))
        => /\ result'.outcome
                  = Raised(<<Fragment("No hand notation provided", <<>>, 0)>>)
           /\ errors' = errors]_vars

HasClass(m, name) == \E i \in DOMAIN m.classes : m.classes[i].name = name

IsMeldSpan(m) == m.kind = "span" /\ HasClass(m, "mahjong-meld")

IsBackGlyph(m) == m.kind = "span" /\ HasClass(m, "mahjong-tile-back")

\* The span of a catalog tile shown face up
IsFaceUp(m) ==
    /\ m.kind = "span"
    /\ HasClass(m, "mahjong-tile")
    /\ ~HasClass(m, "mahjong-tile-back")
    /\ ~HasClass(m, "mahjong-tile-unknown")

\* The markup with what is inside the melds laid out after each meld
RECURSIVE Flat(_)
Flat(parts) ==
    IF parts = <<>> THEN <<>>
    ELSE <<Head(parts)>>
             \o (IF IsMeldSpan(Head(parts)) THEN Flat(Head(parts).inner) ELSE <<>>)
             \o Flat(Tail(parts))

\* The markup of the last render or render_tiles call
Rendered == result.outcome.value

MeldSpans == SelectSeq(Rendered, IsMeldSpan)

BackOffsets(m) == {i \in 0..(Len(m.inner) - 1) : IsBackGlyph(m.inner[i + 1])}

FaceUpOffsets(m) == {i \in 0..(Len(m.inner) - 1) : IsFaceUp(m.inner[i + 1])}

ClosedKans == {i \in DOMAIN given_hand.melds :
                   given_hand.melds[i].meld_type = "kan_closed"}

\* C19: a kan_closed meld is rendered as 2 back glyphs and 2 face-up tiles,
\* the back glyphs at positions 0 and 3 under closed_kan_style "outer" and
\* at 1 and 2 under "inner"; a meld of another type has no back glyph, and
\* there is none outside the melds.
C19_ClosedKanBackGlyphs ==
    result.call = "render" =>
        /\ Len(MeldSpans) = Len(given_hand.melds)
        /\ \A i \in DOMAIN MeldSpans :
               IF i \in ClosedKans
               THEN /\ Len(MeldSpans[i].inner) = 4
                    /\ BackOffsets(MeldSpans[i])
                           = (IF renderer.closed_kan_style = "outer"
                              THEN {0, 3} ELSE {1, 2})
                    /\ FaceUpOffsets(MeldSpans[i])
                           = (IF renderer.closed_kan_style = "outer"
                              THEN {1, 2} ELSE {0, 3})
               ELSE \A j \in DOMAIN Flat(MeldSpans[i].inner) :
                        ~IsBackGlyph(Flat(MeldSpans[i].inner)[j])
        /\ \A j \in DOMAIN Rendered : ~IsBackGlyph(Rendered[j])

\* A closed kan rendered in the "inner" style next to a meld of another type
C19_Witness ==
    /\ result.call = "render"
    /\ renderer.closed_kan_style = "inner"
    /\ ClosedKans # {}
    /\ ClosedKans # DOMAIN given_hand.melds
    /\ \E i \in ClosedKans : BackOffsets(MeldSpans[i]) = {1, 2}

FaceUpSpans == SelectSeq(Flat(Rendered), IsFaceUp)

\* The catalog tiles the last call was given to show
TilesGiven ==
    IF result.call = "render" THEN all_tiles(given_hand)
                                       \o given_hand.dora_indicators
                                       \o given_hand.uradora_indicators
    ELSE given_tiles

CatalogTilesGiven ==
    Len(SelectSeq(TilesGiven, LAMBDA t : get_tile_info(t.suit, t.number) # <<>>))

\* The tiles of the closed kans that the last call shows by their back
TilesFaceDown ==
    IF result.call = "render" THEN 2 * Cardinality(ClosedKans) ELSE 0

\* C20: every catalog tile rendered face up has, under theme "auto", two
\* glyph variants, the first tagged light and the second tagged dark, and
\* no fixed theme class; under theme "light" or "dark" it has one variant,
\* untagged, and the class of that theme.
C20_ThemeVariants ==
    result.call \in {"render", "render_tiles"} =>
        /\ Len(FaceUpSpans) = CatalogTilesGiven - TilesFaceDown
        /\ \A i \in DOMAIN FaceUpSpans :
               /\ renderer.theme = "auto" =>
                      /\ Len(FaceUpSpans[i].inner) = 2
                      /\ FaceUpSpans[i].inner[1].wrapper
                             = <<CssClass("mahjong-tile-light", "")>>
                      /\ FaceUpSpans[i].inner[1].svg.theme = "light"
                      /\ FaceUpSpans[i].inner[2].wrapper
                             = <<CssClass("mahjong-tile-dark", "")>>
                      /\ FaceUpSpans[i].inner[2].svg.theme = "dark"
                      /\ ~HasClass(FaceUpSpans[i], "mahjong-theme-")
               /\ renderer.theme \in {"light", "dark"} =>
                      /\ Len(FaceUpSpans[i].inner) = 1
                      /\ FaceUpSpans[i].inner[1].wrapper = <<>>
                      /\ FaceUpSpans[i].inner[1].svg.theme = renderer.theme
                      /\ \E k \in DOMAIN FaceUpSpans[i].classes :
                             FaceUpSpans[i].classes[k]
                                 = CssClass("mahjong-theme-", renderer.theme)

\* A catalog tile rendered by render_tiles under theme "auto"
C20_Witness ==
    /\ result.call = "render_tiles"
    /\ renderer.theme = "auto"
    /\ Len(FaceUpSpans) = 1
    /\ Len(FaceUpSpans[1].inner) = 2

\* C27: in every Hand parse returns, a tile is flagged is_added if and only
\* if it is the fourth tile of a kan_added meld: every kan_added meld,
\* whatever its source and its brackets, has its fourth tile flagged, and no
\* other tile of a meld or of the closed hand is.
C27_AddedIffFourthOfAddedKan ==
    ParseReturned =>
        /\ \A i \in 1..Len(ReturnedHand.melds) :
               AddedAt(ReturnedHand.melds[i])
                   = (IF ReturnedHand.melds[i].meld_type = "kan_added"
                      THEN {3} ELSE {})
        /\ \A j \in 1..Len(ReturnedHand.closed_tiles) :
               ~ReturnedHand.closed_tiles[j].is_added

AddedKans == {i \in DOMAIN given_hand.melds :
                  given_hand.melds[i].meld_type = "kan_added"}

\* What stands inside a rendered meld: "[" and "]" for the start and the
\* end of a stacked pair, and for a tile its data-tile
LayoutOf(m) ==
    [j \in DOMAIN m.inner |->
        IF m.inner[j].kind = "open" THEN <<"[">>
        ELSE IF m.inner[j].kind = "close" THEN <<"]">>
        ELSE m.inner[j].data]

\* The tiles at offsets a, b, c, d of the meld, the first two stacked,
\* the stack standing before (at = 0), between (1) or after (2) the others
Stacked(meld, a, b, c, d, at) ==
    Let([k \in 0..3 |-> TileNotation(meld.tiles[k + 1])], LAMBDA n :
        CASE at = 0 -> <<<<"[">>, n[a], n[b], <<"]">>, n[c], n[d]>>
          [] at = 1 -> <<n[c], <<"[">>, n[a], n[b], <<"]">>, n[d]>>
          [] at = 2 -> <<n[c], n[d], <<"[">>, n[a], n[b], <<"]">>>>)

\* The spans of the tiles of a rendered meld that carry the class
ClassAt(m, name) ==
    {j \in DOMAIN m.inner : m.inner[j].kind = "span" /\ HasClass(m.inner[j], name)}

\* C23: rendering a kan_added meld emits each of its four tiles once, the
\* originally rotated tile and the fourth tile in one stacked pair placed by
\* source: left, the stack of tiles 0 and 3, then tiles 1 and 2; right,
\* tiles 0 and 1, then the stack of tiles 2 and 3; across, tile 0, the stack
\* of tiles 1 and 3, tile 2.  With source self the four tiles are emitted
\* once each, in one of these layouts.
C23_AddedKanLayout ==
    result.call = "render" =>
        \A i \in AddedKans :
            /\ Len(given_hand.melds[i].tiles) = 4
            /\ given_hand.melds[i].source = LEFT =>
                   /\ LayoutOf(MeldSpans[i]) = Stacked(given_hand.melds[i], 0, 3, 1, 2, 0)
                   /\ ClassAt(MeldSpans[i], "mahjong-tile-rotated") = {2, 3}
                   /\ ClassAt(MeldSpans[i], "mahjong-tile-added") = {3}
            /\ given_hand.melds[i].source = RIGHT =>
                   /\ LayoutOf(MeldSpans[i]) = Stacked(given_hand.melds[i], 2, 3, 0, 1, 2)
                   /\ ClassAt(MeldSpans[i], "mahjong-tile-rotated") = {4, 5}
                   /\ ClassAt(MeldSpans[i], "mahjong-tile-added") = {5}
            /\ given_hand.melds[i].source = ACROSS =>
                   /\ LayoutOf(MeldSpans[i]) = Stacked(given_hand.melds[i], 1, 3, 0, 2, 1)
                   /\ ClassAt(MeldSpans[i], "mahjong-tile-rotated") = {3, 4}
                   /\ ClassAt(MeldSpans[i], "mahjong-tile-added") = {4}
            /\ given_hand.melds[i].source = SELF =>
                   LayoutOf(MeldSpans[i])
                       \in {Stacked(given_hand.melds[i], 0, 3, 1, 2, 0),
                            Stacked(given_hand.melds[i], 2, 3, 0, 1, 2),
                            Stacked(given_hand.melds[i], 1, 3, 0, 2, 1)}

\* An added kan of four different tiles called from the right
C23_Witness ==
    /\ result.call = "render"
    /\ \E i \in AddedKans :
           /\ given_hand.melds[i].source = RIGHT
           /\ given_hand.melds[i].tiles[1].number # given_hand.melds[i].tiles[3].number
           /\ LayoutOf(MeldSpans[i])[6] = <<"]">>

IsUnknownSpan(m) == m.kind = "span" /\ HasClass(m, "mahjong-tile-unknown")

UnknownSpans == SelectSeq(Flat(Rendered), IsUnknownSpan)

\* The tiles given to the last call that have no catalog entry
UnknownTilesGiven ==
    SelectSeq(TilesGiven, LAMBDA t : get_tile_info(t.suit, t.number) = <<>>)

\* The glyphs embedded in a face-up span
GlyphsOf(m) == [k \in DOMAIN m.inner |-> m.inner[k].svg]

\* C24: render and render_tiles never fail: they return markup in which a
\* tile without catalog entry is the mahjong-tile-unknown span with its
\* data-tile and "?", a tile whose asset is missing has the generated
\* placeholder glyph, and every other tile given is rendered as usual (the
\* face-up spans and the unknown spans together are the tiles given, less
\* the tiles a closed kan shows by their back).
C24_RenderNeverFails ==
    result.call \in {"render", "render_tiles"} =>
        /\ result.outcome.kind = "Html"
        /\ Len(UnknownSpans) = Len(UnknownTilesGiven)
        /\ \A i \in DOMAIN UnknownSpans :
               /\ UnknownSpans[i].data = TileNotation(UnknownTilesGiven[i])
               /\ UnknownSpans[i].text = <<"?">>
               /\ UnknownSpans[i].inner = <<>>
        /\ Len(FaceUpSpans) = CatalogTilesGiven - TilesFaceDown
        /\ \A i \in DOMAIN FaceUpSpans :
               /\ Len(FaceUpSpans[i].inner) >= 1
               /\ \A k \in DOMAIN FaceUpSpans[i].inner :
                      GlyphsOf(FaceUpSpans[i])[k].source
                          = IF renderer.theme \in {"light", "dark", "auto"}
                            THEN "asset" ELSE "placeholder"
        /\ result.call = "render" => UnknownTilesGiven = <<>>

\* A tile outside the catalog between two catalog tiles, rendered by a
\* renderer whose theme has no assets
C24_Witness ==
    /\ result.call = "render_tiles"
    /\ renderer.theme = "sepia"
    /\ Len(UnknownSpans) = 1
    /\ Len(FaceUpSpans) = 2
    /\ GlyphsOf(FaceUpSpans[2])[1].source = "placeholder"

StorableKeys ==
    {<<TILE_DATABASE[k].asset_name, theme>> :
        k \in DOMAIN TILE_DATABASE, theme \in AssetThemes}

\* C22: the asset cache is append-only: an entry once stored for an (asset
\* name, theme) key stays, with the content it was stored with, and a
\* request for the key returns that content, without id prefix.  The cache
\* has room for every key it can come to hold.
C22_CacheAppendOnly ==
    [][/\ Cardinality(StorableKeys) <= maxsize
       /\ \A i \in DOMAIN svg_cache :
              \E j \in DOMAIN svg_cache' : svg_cache'[j] = svg_cache[i]
       /\ \A i \in DOMAIN svg_cache :
              result'.key = svg_cache[i].key =>
                  /\ result'.outcome = Returned("Svg", <<svg_cache[i].value>>)
                  /\ svg_cache[i].value.id_prefix = 0]_vars

\* A key requested again after three other keys were stored
C22_Witness ==
    /\ Len(svg_cache) = 4
    /\ result.key = svg_cache[4].key
    /\ result.outcome = Returned("Svg", <<svg_cache[4].value>>)

\* The glyphs embedded so far, as <<thread, offset>>
Embedded ==
    UNION {{<<i, k>> : k \in 1..Len(threads[i].glyphs)} : i \in DOMAIN threads}

PrefixOf(e) == threads[e[1]].glyphs[e[2]].id_prefix

\* C21: across the renders of a process, however interleaved and by
\* whatever renderer, every embedded glyph gets an id prefix from the one
\* counter, which only grows: the prefix is below the counter, later glyphs
\* of a render have greater prefixes, and no two embedded glyphs, of one
\* output or of two, light and dark variant of one tile included, share a
\* prefix.
C21_IdPrefixesUnique ==
    /\ \A e \in Embedded :
           /\ PrefixOf(e) >= 1
           /\ PrefixOf(e) < svg_id_counter
           /\ threads[e[1]].glyphs[e[2]]
                  = [threads[e[1]].todo[e[2]] EXCEPT !.id_prefix = PrefixOf(e)]
    /\ \A e, f \in Embedded :
           /\ e # f => PrefixOf(e) # PrefixOf(f)
           /\ (e[1] = f[1] /\ e[2] < f[2]) => PrefixOf(e) < PrefixOf(f)

\* Two renders of the same tiles under theme "auto" have finished, each
\* having embedded a glyph between the light and the dark variant of a tile
\* of the other
C21_Witness ==
    /\ threads[1].todo = threads[2].todo
    /\ threads[1].self.theme = "auto"
    /\ \A i \in DOMAIN threads : Len(threads[i].glyphs) = Len(threads[i].todo)
    /\ PrefixOf(<<1, 1>>) < PrefixOf(<<2, 1>>)
    /\ PrefixOf(<<2, 1>>) < PrefixOf(<<1, 2>>)
    /\ PrefixOf(<<1, 2>>) < PrefixOf(<<2, 2>>)

\* The lines a run reads, in order: of the block b from the offset k on, then
\* every line of each following block; each with its block and its offset
RECURSIVE LinesFrom(_, _, _)
LinesFrom(bs, b, k) ==
    IF b > Len(bs) THEN <<>>
    ELSE [i \in 1..(Len(split(bs[b])) - k) |->
              [block |-> b, offset |-> k + i - 1, text |-> split(bs[b])[k + i]]]
         \o LinesFrom(bs, b + 1, 0)

\* The lines after the opening fence line, to the end of the last block
LinesAfterOpening == LinesFrom(blocks, 1, 1)

\* A closing fence line: three or more U+0060, then white space only
ClosingFence(text) ==
    \E n \in 3..Len(text) :
        /\ \A i \in 1..n : text[i] = Backtick
        /\ \A i \in (n + 1)..Len(text) : text[i] \in WhiteSpace

\* The place of the first closing fence line among the lines read, 0 when
\* there is none
FirstClosing(read) ==
    IF \E i \in 1..Len(read) : ClosingFence(read[i].text)
    THEN CHOOSE i \in 1..Len(read) :
             /\ ClosingFence(read[i].text)
             /\ \A j \in 1..(i - 1) : ~ClosingFence(read[j].text)
    ELSE 0

\* The lines before the closing fence line at place c, joined and stripped
FenceContent(read, c) ==
    strip(JoinLines([i \in 1..(c - 1) |-> read[i].text]))

\* The text after the closing fence line at place c in the block that holds it
TextAfterFence(read, c) ==
    Let(SelectSeq(read, LAMBDA l : /\ l.block = read[c].block
                                   /\ l.offset > read[c].offset),
        LAMBDA after : JoinLines([i \in 1..Len(after) |-> after[i].text]))

\* What a run leaves in the list of blocks: the text after the closing fence
\* line at place c when it is not blank, then the blocks after its block
BlocksAfterFence(read, c) ==
    Let(TextAfterFence(read, c), LAMBDA text :
        (IF \E i \in 1..Len(text) : text[i] \notin WhiteSpace
         THEN <<text>>
         ELSE <<>>) \o SubSeq(blocks, read[c].block + 1, Len(blocks)))

\* C26: one run on a block that opens a mahjong fence takes the lines up to
\* the first closing fence line as the content, reading on into the
\* following blocks when the opening block does not close the fence, and puts
\* the text after the closing fence line, when it is not blank, back as the
\* next block; with no closing fence line in any block it appends the
\* 'Unclosed mahjong fence' error element and no hand. Every run appends
\* exactly one element to the parent.
C26_RunReadsFence ==
    [][blocks # <<>> /\ test(blocks[1])
           => /\ Len(parent') = Len(parent) + 1
              /\ SubSeq(parent', 1, Len(parent)) = parent
              /\ Let(LinesAfterOpening, LAMBDA read :
                 Let(FirstClosing(read), LAMBDA c :
                     IF c = 0
                     THEN parent'[Len(parent')] =
                              [tag |-> "div", class |-> "mahjong-error",
                               strong |-> "Mahjong Error: ",
                               tail |-> <<Fragment("Unclosed mahjong fence",
                                                   <<>>, 0)>>,
                               text |-> <<>>]
                     ELSE /\ content' = FenceContent(read, c)
                          /\ parent'[Len(parent')] =
                                 RenderBlock(renderer, content', errors,
                                             svg_id_counter).element
                          /\ blocks' = BlocksAfterFence(read, c)))]_vars

\* A run read a fence that the opening block left open and the next block
\* closed: it took the lines of both blocks as the content, appended a hand
\* and put the text after the closing fence line back as the next block
C26_Witness ==
    /\ result.call = "run"
    /\ Len(parent) = 1
    /\ parent[1].class = ""
    /\ parent[1].text # <<>>
    /\ content = <<"1", "m", "\n", "1", "z">>
    /\ blocks = <<<<"x">>>>

====
